---------------------------- MODULE Spec2Model ----------------------------
(***************************************************************************)
(* A model of the 2D physics core of the repository:                       *)
(*   lib/game-physics/math.ts    vector helpers                            *)
(*   lib/game-physics/engine.ts  cloneWorld, applyAction, integrateBodies, *)
(*                               resolveWorldCollision,                    *)
(*                               resolveBodyCollision, stepWorld,          *)
(*                               runPhysicsSimulation                      *)
(*   lib/game-physics/tool.ts    normalizeRequest, runGamePhysicsTool      *)
(*                                                                         *)
(* JavaScript numbers are modelled as exact rationals [n, d] in lowest     *)
(* terms (d >= 1).  JavaScript objects live on an explicit heap, so that   *)
(* aliasing between the caller's world and the stepper's working copy is   *)
(* something the model can get wrong.                                      *)
(***************************************************************************)
EXTENDS Integers, Sequences, FiniteSets, TLC

\* ------------------------------------------------------------------------
\* Numbers
\* ------------------------------------------------------------------------

RECURSIVE GCD(_, _)
GCD(a, b) == IF b = 0 THEN a ELSE GCD(b, a % b)

IAbs(i) == IF i < 0 THEN -i ELSE i

\* The rational n/d in lowest terms with a positive denominator (d # 0).
Q(n, d) ==
  LET g == GCD(IAbs(n), IAbs(d))
      s == IF d < 0 THEN -1 ELSE 1
  IN  [n |-> (s * n) \div g, d |-> (s * d) \div g]

I(k) == [n |-> k, d |-> 1]

\* `undefined`: an optional field that is absent.
Undefined == [n |-> 0, d |-> 0]
\* What IEEE arithmetic gives for a division by zero (NaN for 0/0, an infinity
\* otherwise) and for arithmetic on what is not a number: one value that is not
\* a number, which every operation hands on and every comparison finds false.
NaN == [n |-> 1, d |-> 0]

IsNumber(v) == v.d > 0

\* Sums, products and comparisons cancel common factors first, to keep the integers small.
RAdd(a, b) ==
  IF a.d = 0 \/ b.d = 0 THEN NaN
  ELSE IF a.d = b.d THEN Q(a.n + b.n, a.d)
  ELSE LET g == GCD(a.d, b.d)
       IN  Q(a.n * (b.d \div g) + b.n * (a.d \div g), (a.d \div g) * b.d)
RNeg(a) == IF a.d = 0 THEN NaN ELSE [n |-> -a.n, d |-> a.d]
RSub(a, b) == RAdd(a, RNeg(b))
RMul(a, b) ==
  IF a.d = 0 \/ b.d = 0 THEN NaN
  ELSE IF a.d = 1 /\ b.d = 1 THEN I(a.n * b.n)
  ELSE IF a.n = 0 \/ b.n = 0 THEN I(0)
  ELSE LET g1 == GCD(IAbs(a.n), b.d)
           g2 == GCD(IAbs(b.n), a.d)
       IN  [n |-> (a.n \div g1) * (b.n \div g2), d |-> (a.d \div g2) * (b.d \div g1)]
RDiv(a, b) ==
  IF a.d = 0 \/ b.d = 0 \/ b.n = 0 THEN NaN
  ELSE RMul(a, IF b.n < 0 THEN [n |-> -b.d, d |-> -b.n] ELSE [n |-> b.d, d |-> b.n])
RLt(a, b) ==
  IF a.d = 0 \/ b.d = 0 THEN FALSE
  ELSE IF a.d = b.d THEN a.n < b.n
  ELSE LET g == GCD(a.d, b.d) IN a.n * (b.d \div g) < b.n * (a.d \div g)
RLe(a, b) == a.d > 0 /\ b.d > 0 /\ ~RLt(b, a)
RAbs(a) == IF a.d = 0 THEN NaN ELSE [n |-> IAbs(a.n), d |-> a.d]
RMin(a, b) == IF a.d = 0 \/ b.d = 0 THEN NaN ELSE IF RLt(b, a) THEN b ELSE a
RMax(a, b) == IF a.d = 0 \/ b.d = 0 THEN NaN ELSE IF RLt(a, b) THEN b ELSE a

\* Math.sqrt, exact on the squares of rationals (the only arguments it gets
\* here); of another number, the nearest rational below with the root's denominator.
RECURSIVE ISqrtBetween(_, _, _)
ISqrtBetween(k, lo, hi) ==
  IF lo >= hi THEN lo
  ELSE LET mid == (lo + hi + 1) \div 2
       IN  IF mid <= k \div mid THEN ISqrtBetween(k, mid, hi) ELSE ISqrtBetween(k, lo, mid - 1)
ISqrt(k) == ISqrtBetween(k, 0, k)
RSqrt(a) == IF a.d = 0 \/ a.n < 0 THEN NaN ELSE Q(ISqrt(a.n), ISqrt(a.d))

\* Math.round: the nearest integer, halves rounded up.
RRound(a) == I((2 * a.n + a.d) \div (2 * a.d))

\* value <= Number.EPSILON (2^-52).  Every positive rational of the model has a
\* denominator below 2^31, hence is above 2^-31: only values <= 0 pass.
LeEpsilon(a) == a.d > 0 /\ a.n <= 0

\* a ?? b
Nullish(a, b) == IF a = Undefined THEN b ELSE a

\* ------------------------------------------------------------------------
\* math.ts
\* ------------------------------------------------------------------------

V(x, y) == [x |-> x, y |-> y]
VI(x, y) == [x |-> I(x), y |-> I(y)]

clamp(value, min, max) == RMin(max, RMax(min, value))

add(a, b) == V(RAdd(a.x, b.x), RAdd(a.y, b.y))

subtract(a, b) == V(RSub(a.x, b.x), RSub(a.y, b.y))

scale(vector, factor) == V(RMul(vector.x, factor), RMul(vector.y, factor))

dot(a, b) == RAdd(RMul(a.x, b.x), RMul(a.y, b.y))

\* Math.sqrt(dot(vector, vector)).  The square root of x * x is |x|: a vector
\* along an axis needs no root.
length(vector) ==
  IF vector.y.n = 0 THEN RAbs(vector.x)
  ELSE IF vector.x.n = 0 THEN RAbs(vector.y)
  ELSE RSqrt(dot(vector, vector))

\* normalize without the test of the magnitude.
normalizeAnyLength(vector) == scale(vector, RDiv(I(1), length(vector)))

normalize(vector) ==
  LET magnitude == length(vector)
  IN  IF LeEpsilon(magnitude) THEN VI(0, 0)
      ELSE scale(vector, RDiv(I(1), magnitude))

\* ------------------------------------------------------------------------
\* engine.ts: constants
\* ------------------------------------------------------------------------

DEFAULT_DT_MS == Q(16667, 1000)
DEFAULT_STEPS == 1
MIN_DT_MS == 1
MAX_DT_MS == 100
MAX_STEPS == 32

WORLD_ID == "__world__"

\* ------------------------------------------------------------------------
\* The heap.  vec: Vector2 objects; body: PhysicsBody objects, whose
\* position, velocity and halfSize are references into vec; arr: arrays of
\* body references; bnd: WorldBounds objects; world: PhysicsWorldState
\* objects.  A reference is an index; allocation appends.
\* ------------------------------------------------------------------------

EmptyHeap == [vec |-> <<>>, body |-> <<>>, arr |-> <<>>, bnd |-> <<>>, world |-> <<>>]

\* cloneBody as a shallow copy, { ...body }: the copy shares its vectors with the original.
cloneBodyShallow(H, b) ==
  [h |-> [H EXCEPT !.body = Append(@, H.body[b])], r |-> Len(H.body) + 1]

\* { ...body, position: {...}, velocity: {...}, halfSize: {...} }
cloneBody(H, b) ==
  LET body == H.body[b]
      p == Len(H.vec)
      fresh == [body EXCEPT !.position = p + 1, !.velocity = p + 2, !.halfSize = p + 3]
  IN  [h |-> [H EXCEPT !.vec = @ \o << H.vec[body.position], H.vec[body.velocity],
                                       H.vec[body.halfSize] >>,
                       !.body = Append(@, fresh)],
       r |-> Len(H.body) + 1]

\* world.bodies.map(cloneBody)
\* The loops over arrays are evaluated by halves: the first half of the array, which
\* is not empty, and when that is evaluated the second half from where it ended.
FirstHalf(array) == SubSeq(array, 1, Len(array) \div 2)
SecondHalf(array) == SubSeq(array, Len(array) \div 2 + 1, Len(array))

\* One more clone behind the clones made so far.
clonedBehind(c, acc) == [h |-> c.h, r |-> Append(acc, c.r)]

RECURSIVE mapCloneBody(_, _, _)
RECURSIVE mapCloneRest(_, _)
mapCloneBody(H, src, acc) ==
  IF src = <<>> THEN [h |-> H, r |-> acc]
  ELSE IF Len(src) = 1 THEN clonedBehind(cloneBody(H, src[1]), acc)
  ELSE mapCloneRest(mapCloneBody(H, FirstHalf(src), acc), SecondHalf(src))

mapCloneRest(first, src) ==
  IF Len(first.r) > 0 THEN mapCloneBody(first.h, src, first.r) ELSE first

cloneWorld(H, w) ==
  LET world == H.world[w]
      g == Len(H.vec)
      H1 == [H EXCEPT !.vec = @ \o << H.vec[world.gravity], H.vec[H.bnd[world.bounds].min],
                                      H.vec[H.bnd[world.bounds].max] >>,
                      !.bnd = Append(@, [min |-> g + 2, max |-> g + 3])]
      m == mapCloneBody(H1, H.arr[world.bodies], <<>>)
      H2 == [m.h EXCEPT !.arr = Append(@, m.r)]
      fresh == [world EXCEPT !.gravity = g + 1, !.bounds = Len(H1.bnd), !.bodies = Len(H2.arr)]
  IN  [h |-> [H2 EXCEPT !.world = Append(@, fresh)], r |-> Len(H.world) + 1]

\* The value of an object with every reference followed (deep equality compares these).
DerefBody(H, b) ==
  LET body == H.body[b]
  IN  [body EXCEPT !.position = H.vec[body.position], !.velocity = H.vec[body.velocity],
                   !.halfSize = H.vec[body.halfSize]]

DerefBodies(H, a) == [i \in 1..Len(H.arr[a]) |-> DerefBody(H, H.arr[a][i])]

DerefWorld(H, w) ==
  LET world == H.world[w]
  IN  [world EXCEPT !.gravity = H.vec[world.gravity],
                    !.bounds = [min |-> H.vec[H.bnd[world.bounds].min],
                                max |-> H.vec[H.bnd[world.bounds].max]],
                    !.bodies = DerefBodies(H, world.bodies)]

getBodyRestitution(H, w, b) ==
  clamp(Nullish(Nullish(H.body[b].restitution, H.world[w].defaultRestitution), Q(1, 4)), I(0), I(1))

getBodyFriction(H, w, b) ==
  clamp(Nullish(Nullish(H.body[b].friction, H.world[w].defaultFriction), Q(1, 5)), I(0), I(1))

getBodyLinearDamping(H, w, b) ==
  clamp(Nullish(Nullish(H.body[b].linearDamping, H.world[w].defaultLinearDamping), Q(1, 50)), I(0), I(1))

\* isDynamic decided by the mass alone.
isDynamicByMass(H, b) == RLt(I(0), H.body[b].mass)

\* !body.isStatic
isDynamic(H, b) == ~H.body[b].isStatic

bodyInverseMass(H, b) ==
  IF ~isDynamic(H, b) THEN I(0)
  ELSE IF RLt(I(0), H.body[b].mass) THEN RDiv(I(1), H.body[b].mass) ELSE I(1)


\* ------------------------------------------------------------------------
\* engine.ts: applyAction
\* An action is [type, bodyId, vector, body]: vector is the impulse, force,
\* velocity or position it carries, body the reference of a spawnBody's body.
\* bodyById is the Map of stepWorld, a function from ids to body references.
\* ------------------------------------------------------------------------

MapSet(map, key, value) ==
  [k \in DOMAIN map \cup {key} |-> IF k = key THEN value ELSE map[k]]

\* bodyById.delete(key) that leaves the entry in the map.
MapDeleteKeepsEntry(map, key) == map

MapDelete(map, key) == [k \in DOMAIN map \ {key} |-> map[k]]

\* new Map(world.bodies.map((body) => [body.id, body])): a later entry replaces an earlier one.
MaxOf(S) == CHOOSE x \in S : \A y \in S : y <= x

MapOfBodies(H, refs, map) ==
  [id \in DOMAIN map \cup { H.body[refs[i]].id : i \in 1..Len(refs) } |->
     IF \E i \in 1..Len(refs) : H.body[refs[i]].id = id
     THEN refs[MaxOf({ i \in 1..Len(refs) : H.body[refs[i]].id = id })]
     ELSE map[id]]

EmptyMap == [k \in {} |-> 0]

\* The spawnBody that is ignored only for an empty id.
spawnIgnoredIfEmpty(id, bodyById) == id = ""

\* !incomingBody.id || bodyById.has(incomingBody.id)
spawnIgnored(id, bodyById) == id = "" \/ id \in DOMAIN bodyById

\* velocity += impulse, whatever the mass.
impulseVelocityAnyMass(velocity, impulse, inverseMass) == add(velocity, impulse)

\* target.velocity.x += action.impulse.x * inverseMass, and the same of y
impulseVelocity(velocity, impulse, inverseMass) ==
  V(RAdd(velocity.x, RMul(impulse.x, inverseMass)), RAdd(velocity.y, RMul(impulse.y, inverseMass)))

\* target.velocity.x += action.force.x * inverseMass * dtSeconds, and the same of y
forceVelocity(velocity, force, inverseMass, dtSeconds) ==
  V(RAdd(velocity.x, RMul(RMul(force.x, inverseMass), dtSeconds)),
    RAdd(velocity.y, RMul(RMul(force.y, inverseMass), dtSeconds)))

\* The target that is ignored only when absent.
targetIgnoredIfAbsent(H, bodyById, bodyId) == bodyId \notin DOMAIN bodyById

\* !target || !isDynamic(target)
targetIgnored(H, bodyById, bodyId) ==
  bodyId \notin DOMAIN bodyById \/ ~isDynamic(H, bodyById[bodyId])

applyAction(H, w, bodyById, action, dtSeconds) ==
  IF action.type = "spawnBody" THEN
    LET c == cloneBody(H, action.body)
        id == c.h.body[c.r].id
    IN  IF spawnIgnored(id, bodyById)
        THEN [h |-> c.h, map |-> bodyById]
        ELSE [h |-> [c.h EXCEPT !.arr[H.world[w].bodies] = Append(@, c.r)],
              map |-> MapSet(bodyById, id, c.r)]
  ELSE IF action.type = "removeBody" THEN
    IF action.bodyId \notin DOMAIN bodyById
    THEN [h |-> H, map |-> bodyById]
    ELSE LET kept == SelectSeq(H.arr[H.world[w].bodies],
                               LAMBDA b : H.body[b].id # action.bodyId)
         IN  [h |-> [H EXCEPT !.arr = Append(@, kept), !.world[w].bodies = Len(H.arr) + 1],
              map |-> MapDelete(bodyById, action.bodyId)]
  ELSE IF targetIgnored(H, bodyById, action.bodyId)
    THEN [h |-> H, map |-> bodyById]
  ELSE
    LET target == bodyById[action.bodyId]
        inverseMass == bodyInverseMass(H, target)
        velocity == H.body[target].velocity
    IN  CASE action.type = "applyImpulse" ->
               [h |-> [H EXCEPT !.vec[velocity] = impulseVelocity(@, action.vector, inverseMass)],
                map |-> bodyById]
          [] action.type = "applyForce" ->
               [h |-> [H EXCEPT !.vec[velocity] =
                         forceVelocity(@, action.vector, inverseMass, dtSeconds)],
                map |-> bodyById]
          [] action.type = "setVelocity" ->
               [h |-> [H EXCEPT !.vec = Append(@, action.vector),
                                !.body[target].velocity = Len(H.vec) + 1],
                map |-> bodyById]
          [] action.type = "teleport" ->
               [h |-> [H EXCEPT !.vec = Append(@, action.vector),
                                !.body[target].position = Len(H.vec) + 1],
                map |-> bodyById]
          [] OTHER -> [h |-> H, map |-> bodyById]

\* for (const action of actions) applyAction(world, bodyById, action, dtSeconds)
RECURSIVE applyActions(_, _, _, _, _)
applyActions(H, w, bodyById, actions, dtSeconds) ==
  IF actions = <<>> THEN [h |-> H, map |-> bodyById]
  ELSE LET r == applyAction(H, w, bodyById, Head(actions), dtSeconds)
       IN  applyActions(r.h, w, r.map, Tail(actions), dtSeconds)

\* ------------------------------------------------------------------------
\* engine.ts: integrateBodies
\* ------------------------------------------------------------------------

\* The loop body of integrateBodies, for one body.
\* integrateBody moving the body by the velocity it had before the update.
integrateBodyPositionFirst(H, w, b, dtSeconds) ==
  IF ~isDynamic(H, b) THEN H
  ELSE
    LET body == H.body[b]
        gravity == H.vec[H.world[w].gravity]
        v0 == H.vec[body.velocity]
        p0 == H.vec[body.position]
        dampingFactor == clamp(RSub(I(1), RMul(getBodyLinearDamping(H, w, b), dtSeconds)),
                               I(0), I(1))
    IN  [H EXCEPT !.vec[body.position] =
                    V(RAdd(p0.x, RMul(v0.x, dtSeconds)), RAdd(p0.y, RMul(v0.y, dtSeconds))),
                  !.vec[body.velocity] =
                    V(RMul(RAdd(v0.x, RMul(gravity.x, dtSeconds)), dampingFactor),
                      RMul(RAdd(v0.y, RMul(gravity.y, dtSeconds)), dampingFactor))]

integrateBody(H, w, b, dtSeconds) ==
  IF ~isDynamic(H, b) THEN H
  ELSE
    LET body == H.body[b]
        gravity == H.vec[H.world[w].gravity]
        v0 == H.vec[body.velocity]
        v1 == V(RAdd(v0.x, RMul(gravity.x, dtSeconds)), RAdd(v0.y, RMul(gravity.y, dtSeconds)))
        damping == getBodyLinearDamping(H, w, b)
        dampingFactor == clamp(RSub(I(1), RMul(damping, dtSeconds)), I(0), I(1))
        v2 == V(RMul(v1.x, dampingFactor), RMul(v1.y, dampingFactor))
        H1 == [H EXCEPT !.vec[body.velocity] = v2]
        p0 == H1.vec[body.position]
        v3 == H1.vec[body.velocity]
    IN  [H1 EXCEPT !.vec[body.position] =
           V(RAdd(p0.x, RMul(v3.x, dtSeconds)), RAdd(p0.y, RMul(v3.y, dtSeconds)))]

RECURSIVE integrateLoop(_, _, _, _)
RECURSIVE integrateRest(_, _, _, _)
integrateLoop(H, w, refs, dtSeconds) ==
  IF refs = <<>> THEN H
  ELSE IF Len(refs) = 1 THEN integrateBody(H, w, refs[1], dtSeconds)
  ELSE integrateRest(integrateLoop(H, w, FirstHalf(refs), dtSeconds), w, SecondHalf(refs),
                     dtSeconds)

integrateRest(first, w, refs, dtSeconds) ==
  IF Len(first.body) > 0 THEN integrateLoop(first, w, refs, dtSeconds) ELSE first

integrateBodies(H, w, dtSeconds) == integrateLoop(H, w, H.arr[H.world[w].bodies], dtSeconds)

\* ------------------------------------------------------------------------
\* engine.ts: resolveWorldCollision
\* ------------------------------------------------------------------------

Event(aId, bId, normal, depth, relativeSpeed) ==
  [aId |-> aId, bId |-> bId, normal |-> normal, depth |-> depth, relativeSpeed |-> relativeSpeed]

\* The four sides of resolveWorldCollision.  s is what the function holds when it
\* reaches the side: the body's position p and velocity v, and the events c.
resolveLeft(s, id, left, minX, restitution, frictionFactor) ==
  IF RLt(left, minX) THEN
    LET depth == RSub(minX, left)
        v == IF RLt(s.v.x, I(0))
             THEN V(RMul(RNeg(s.v.x), restitution), RMul(s.v.y, frictionFactor))
             ELSE s.v
    IN  [p |-> V(RAdd(s.p.x, depth), s.p.y), v |-> v,
         c |-> Append(s.c, Event(id, WORLD_ID, VI(1, 0), depth, RAbs(v.x)))]
  ELSE s

resolveRight(s, id, right, maxX, restitution, frictionFactor) ==
  IF RLt(maxX, right) THEN
    LET depth == RSub(right, maxX)
        v == IF RLt(I(0), s.v.x)
             THEN V(RMul(RNeg(s.v.x), restitution), RMul(s.v.y, frictionFactor))
             ELSE s.v
    IN  [p |-> V(RSub(s.p.x, depth), s.p.y), v |-> v,
         c |-> Append(s.c, Event(id, WORLD_ID, VI(-1, 0), depth, RAbs(v.x)))]
  ELSE s

resolveTop(s, id, top, minY, restitution, frictionFactor) ==
  IF RLt(top, minY) THEN
    LET depth == RSub(minY, top)
        v == IF RLt(s.v.y, I(0))
             THEN V(RMul(s.v.x, frictionFactor), RMul(RNeg(s.v.y), restitution))
             ELSE s.v
    IN  [p |-> V(s.p.x, RAdd(s.p.y, depth)), v |-> v,
         c |-> Append(s.c, Event(id, WORLD_ID, VI(0, 1), depth, RAbs(v.y)))]
  ELSE s

\* resolveBottom without the reflection: the body is moved back and keeps its velocity.
resolveBottomKeepsVelocity(s, id, bottom, maxY, restitution, frictionFactor) ==
  IF RLt(maxY, bottom) THEN
    [p |-> V(s.p.x, RSub(s.p.y, RSub(bottom, maxY))), v |-> s.v,
     c |-> Append(s.c, Event(id, WORLD_ID, VI(0, -1), RSub(bottom, maxY), RAbs(s.v.y)))]
  ELSE s

resolveBottom(s, id, bottom, maxY, restitution, frictionFactor) ==
  IF RLt(maxY, bottom) THEN
    LET depth == RSub(bottom, maxY)
        v == IF RLt(I(0), s.v.y)
             THEN V(RMul(s.v.x, frictionFactor), RMul(RNeg(s.v.y), restitution))
             ELSE s.v
    IN  [p |-> V(s.p.x, RSub(s.p.y, depth)), v |-> v,
         c |-> Append(s.c, Event(id, WORLD_ID, VI(0, -1), depth, RAbs(v.y)))]
  ELSE s

\* The body with what resolveWorldCollision has made of its position and velocity.
resolvedBody(H, body, s) ==
  [h |-> [H EXCEPT !.vec[body.position] = s.p, !.vec[body.velocity] = s.v],
   collisions |-> s.c]

\* left, right, top and bottom are computed once, before any side is resolved.
resolveSides(H, body, collisions, position, halfSize, bmin, bmax, restitution, frictionFactor) ==
  resolvedBody(H, body,
    resolveBottom(
      resolveTop(
        resolveRight(
          resolveLeft([p |-> position, v |-> H.vec[body.velocity], c |-> collisions],
                      body.id, RSub(position.x, halfSize.x), bmin.x, restitution, frictionFactor),
          body.id, RAdd(position.x, halfSize.x), bmax.x, restitution, frictionFactor),
        body.id, RSub(position.y, halfSize.y), bmin.y, restitution, frictionFactor),
      body.id, RAdd(position.y, halfSize.y), bmax.y, restitution, frictionFactor))

resolveWorldCollision(H, w, b, collisions) ==
  IF ~isDynamic(H, b) THEN [h |-> H, collisions |-> collisions]
  ELSE resolveSides(H, H.body[b], collisions, H.vec[H.body[b].position],
                    H.vec[H.body[b].halfSize], H.vec[H.bnd[H.world[w].bounds].min],
                    H.vec[H.bnd[H.world[w].bounds].max], getBodyRestitution(H, w, b),
                    clamp(RSub(I(1), getBodyFriction(H, w, b)), I(0), I(1)))

\* ------------------------------------------------------------------------
\* engine.ts: resolveBodyCollision
\* ------------------------------------------------------------------------

\* correctPositions with the separation split evenly, whatever the inverse masses.
correctPositionsEvenly(H, bodyA, bodyB, separation, inverseMassA, inverseMassB, inverseMassTotal) ==
  [H EXCEPT
     !.vec[bodyA.position] =
        IF RLt(I(0), inverseMassA)
        THEN V(RSub(@.x, RMul(separation.x, Q(1, 2))), RSub(@.y, RMul(separation.y, Q(1, 2))))
        ELSE @,
     !.vec[bodyB.position] =
        IF RLt(I(0), inverseMassB)
        THEN V(RAdd(@.x, RMul(separation.x, Q(1, 2))), RAdd(@.y, RMul(separation.y, Q(1, 2))))
        ELSE @]

\* bodyA.position -= separation * (inverseMassA / inverseMassTotal), and the same
\* added to bodyB.position: each only for a body of positive inverse mass.
correctPositions(H, bodyA, bodyB, separation, inverseMassA, inverseMassB, inverseMassTotal) ==
  [H EXCEPT
     !.vec[bodyA.position] =
        IF RLt(I(0), inverseMassA)
        THEN V(RSub(@.x, RMul(separation.x, RDiv(inverseMassA, inverseMassTotal))),
               RSub(@.y, RMul(separation.y, RDiv(inverseMassA, inverseMassTotal))))
        ELSE @,
     !.vec[bodyB.position] =
        IF RLt(I(0), inverseMassB)
        THEN V(RAdd(@.x, RMul(separation.x, RDiv(inverseMassB, inverseMassTotal))),
               RAdd(@.y, RMul(separation.y, RDiv(inverseMassB, inverseMassTotal))))
        ELSE @]

\* applyImpulseToPair with bodyB's share scaled by inverseMassA too.
applyImpulseToPairOneMass(H, bodyA, bodyB, impulse, inverseMassA, inverseMassB) ==
  [H EXCEPT
     !.vec[bodyA.velocity] =
        IF RLt(I(0), inverseMassA)
        THEN V(RSub(@.x, RMul(impulse.x, inverseMassA)), RSub(@.y, RMul(impulse.y, inverseMassA)))
        ELSE @,
     !.vec[bodyB.velocity] =
        IF RLt(I(0), inverseMassB)
        THEN V(RAdd(@.x, RMul(impulse.x, inverseMassA)), RAdd(@.y, RMul(impulse.y, inverseMassA)))
        ELSE @]

\* applyImpulseToPair with the impulse taken for a change of velocity, whatever
\* the masses.
applyImpulseToPairUnscaled(H, bodyA, bodyB, impulse, inverseMassA, inverseMassB) ==
  [H EXCEPT
     !.vec[bodyA.velocity] =
        IF RLt(I(0), inverseMassA) THEN V(RSub(@.x, impulse.x), RSub(@.y, impulse.y)) ELSE @,
     !.vec[bodyB.velocity] =
        IF RLt(I(0), inverseMassB) THEN V(RAdd(@.x, impulse.x), RAdd(@.y, impulse.y)) ELSE @]

\* bodyA.velocity -= impulse * inverseMassA; bodyB.velocity += impulse * inverseMassB:
\* each only for a body of positive inverse mass.
applyImpulseToPair(H, bodyA, bodyB, impulse, inverseMassA, inverseMassB) ==
  [H EXCEPT
     !.vec[bodyA.velocity] =
        IF RLt(I(0), inverseMassA)
        THEN V(RSub(@.x, RMul(impulse.x, inverseMassA)), RSub(@.y, RMul(impulse.y, inverseMassA)))
        ELSE @,
     !.vec[bodyB.velocity] =
        IF RLt(I(0), inverseMassB)
        THEN V(RAdd(@.x, RMul(impulse.x, inverseMassB)), RAdd(@.y, RMul(impulse.y, inverseMassB)))
        ELSE @]

\* tangentImpulse without the clamp to the limit.
tangentImpulseUnclamped(relativeVelocity, tangent, inverseMassTotal, tangentImpulseLimit) ==
  scale(tangent, RDiv(RNeg(dot(relativeVelocity, tangent)), inverseMassTotal))

\* The tangent impulse, from tangent on.
tangentImpulse(relativeVelocity, tangent, inverseMassTotal, tangentImpulseLimit) ==
  scale(tangent,
        clamp(RDiv(RNeg(dot(relativeVelocity, tangent)), inverseMassTotal),
              RNeg(tangentImpulseLimit), tangentImpulseLimit))

\* resolveBodyCollision from the normal impulse on: H is the heap after the
\* positional correction.
resolveImpulses(H, w, a, b, normal, relativeVelocity, normalImpulseScalar, inverseMassA, inverseMassB) ==
  applyImpulseToPair(
    applyImpulseToPair(H, H.body[a], H.body[b], scale(normal, normalImpulseScalar),
                       inverseMassA, inverseMassB),
    H.body[a], H.body[b],
    tangentImpulse(relativeVelocity,
                   normalize(subtract(relativeVelocity,
                                      scale(normal, dot(relativeVelocity, normal)))),
                   RAdd(inverseMassA, inverseMassB),
                   RMul(normalImpulseScalar,
                        RSqrt(RMul(getBodyFriction(H, w, a), getBodyFriction(H, w, b))))),
    inverseMassA, inverseMassB)

\* resolveVelocities returning early for a pair with no relative velocity along the
\* normal too.
resolveVelocitiesUnlessAtRest(H, w, a, b, collisions, normal, depth, relativeVelocity, velocityAlongNormal, inverseMassA, inverseMassB) ==
  IF RLe(I(0), velocityAlongNormal) THEN [h |-> H, collisions |-> collisions]
  ELSE [h |-> resolveImpulses(H, w, a, b, normal, relativeVelocity,
                 RDiv(RMul(RNeg(RAdd(I(1), RMin(getBodyRestitution(H, w, a),
                                                getBodyRestitution(H, w, b)))),
                           velocityAlongNormal),
                      RAdd(inverseMassA, inverseMassB)),
                 inverseMassA, inverseMassB),
        collisions |-> Append(collisions,
           Event(H.body[a].id, H.body[b].id, normal, depth, RAbs(velocityAlongNormal)))]

\* resolveBodyCollision from relativeVelocity on: H is the heap after the
\* positional correction.
resolveVelocities(H, w, a, b, collisions, normal, depth, relativeVelocity, velocityAlongNormal, inverseMassA, inverseMassB) ==
  IF RLt(I(0), velocityAlongNormal) THEN [h |-> H, collisions |-> collisions]
  ELSE [h |-> resolveImpulses(H, w, a, b, normal, relativeVelocity,
                 RDiv(RMul(RNeg(RAdd(I(1), RMin(getBodyRestitution(H, w, a),
                                                getBodyRestitution(H, w, b)))),
                           velocityAlongNormal),
                      RAdd(inverseMassA, inverseMassB)),
                 inverseMassA, inverseMassB),
        collisions |-> Append(collisions,
           Event(H.body[a].id, H.body[b].id, normal, depth, RAbs(velocityAlongNormal)))]

relativeVelocityOf(H, a, b) == subtract(H.vec[H.body[b].velocity], H.vec[H.body[a].velocity])

\* resolveBodyCollision from the inverse masses on.
resolveOverlap(H, w, a, b, collisions, normal, depth, inverseMassA, inverseMassB) ==
  IF LeEpsilon(RAdd(inverseMassA, inverseMassB)) THEN [h |-> H, collisions |-> collisions]
  ELSE resolveVelocities(
         correctPositions(H, H.body[a], H.body[b], scale(normal, depth),
                          inverseMassA, inverseMassB, RAdd(inverseMassA, inverseMassB)),
         w, a, b, collisions, normal, depth, relativeVelocityOf(H, a, b),
         dot(relativeVelocityOf(H, a, b), normal), inverseMassA, inverseMassB)

\* normalOf with the x axis for a pair whose two overlaps are equal.
normalOfTieOnX(delta, overlapX, overlapY) ==
  IF RLe(overlapX, overlapY)
  THEN VI(IF RLe(I(0), delta.x) THEN 1 ELSE -1, 0)
  ELSE VI(0, IF RLe(I(0), delta.y) THEN 1 ELSE -1)

\* normal and depth of a pair that overlaps by overlapX and overlapY.
normalOf(delta, overlapX, overlapY) ==
  IF RLt(overlapX, overlapY)
  THEN VI(IF RLe(I(0), delta.x) THEN 1 ELSE -1, 0)
  ELSE VI(0, IF RLe(I(0), delta.y) THEN 1 ELSE -1)

depthOf(overlapX, overlapY) == IF RLt(overlapX, overlapY) THEN overlapX ELSE overlapY

overlapOf(halfSizeA, halfSizeB, delta) == RSub(RAdd(halfSizeA, halfSizeB), RAbs(delta))

resolveDelta(H, w, a, b, collisions, delta, overlapX, overlapY) ==
  IF RLe(overlapX, I(0)) \/ RLe(overlapY, I(0)) THEN [h |-> H, collisions |-> collisions]
  ELSE resolveOverlap(H, w, a, b, collisions, normalOf(delta, overlapX, overlapY),
                      depthOf(overlapX, overlapY), bodyInverseMass(H, a), bodyInverseMass(H, b))

deltaOf(H, a, b) == subtract(H.vec[H.body[b].position], H.vec[H.body[a].position])

resolveBodyCollision(H, w, a, b, collisions) ==
  resolveDelta(H, w, a, b, collisions, deltaOf(H, a, b),
               overlapOf(H.vec[H.body[a].halfSize].x, H.vec[H.body[b].halfSize].x,
                         deltaOf(H, a, b).x),
               overlapOf(H.vec[H.body[a].halfSize].y, H.vec[H.body[b].halfSize].y,
                         deltaOf(H, a, b).y))

\* ------------------------------------------------------------------------
\* engine.ts: stepWorld
\* ------------------------------------------------------------------------

\* The characters of the model's strings, in collation order: white space,
\* punctuation, digits, letters.
Alphabet == " -0123456789abcdefghijklmnopqrstuvwxyz"

CharRank(c) == CHOOSE i \in 1..Len(Alphabet) : SubSeq(Alphabet, i, i) = c

\* a.localeCompare(b): negative, zero or positive.  On strings of these
\* characters the collation order is the lexical order.
RECURSIVE localeCompare(_, _)
localeCompare(a, b) ==
  IF a = "" THEN (IF b = "" THEN 0 ELSE -1)
  ELSE IF b = "" THEN 1
  ELSE IF SubSeq(a, 1, 1) = SubSeq(b, 1, 1)
       THEN localeCompare(SubSeq(a, 2, Len(a)), SubSeq(b, 2, Len(b)))
       ELSE CharRank(SubSeq(a, 1, 1)) - CharRank(SubSeq(b, 1, 1))

\* Array.prototype.sort is stable: a body stands behind the bodies that sort before
\* it and behind the earlier bodies that sort as it does.
sortedBefore(H, refs, j, i) ==
  \/ localeCompare(H.body[refs[j]].id, H.body[refs[i]].id) < 0
  \/ j < i /\ localeCompare(H.body[refs[j]].id, H.body[refs[i]].id) = 0

sortedPlaces(H, refs) ==
  SubSeq([i \in 1..Len(refs) |->
            1 + Cardinality({ j \in 1..Len(refs) : sortedBefore(H, refs, j, i) })],
         1, Len(refs))

sortedByPlace(refs, place) ==
  [k \in 1..Len(refs) |-> refs[CHOOSE i \in 1..Len(refs) : place[i] = k]]

\* The copy of world.bodies left in the order of the array.
sortBodiesAsGiven(H, refs) == refs

\* [...world.bodies].sort((a, b) => a.id.localeCompare(b.id))
sortBodies(H, refs) == sortedByPlace(refs, sortedPlaces(H, refs))

\* for (const body of world.bodies) resolveWorldCollision(world, body, collisions)
RECURSIVE worldCollisionLoop(_, _, _, _)
worldCollisionLoop(H, w, refs, collisions) ==
  IF refs = <<>> THEN [h |-> H, collisions |-> collisions]
  ELSE LET r == resolveWorldCollision(H, w, Head(refs), collisions)
       IN  worldCollisionLoop(r.h, w, Tail(refs), r.collisions)

MinOf(S) == CHOOSE x \in S : \A y \in S : x <= y

\* The nested loops of stepWorld visit the pairs index < inner in order and
\* `continue` past a pair of two static bodies: the first pair at or after
\* (index, inner) that is not skipped, or a pair beyond the end when there is none.
nextPair(H, orderedBodies, index, inner) ==
  LET n == Len(orderedBodies)
      dynamic == { k \in 1..n : isDynamic(H, orderedBodies[k]) }
      first(i, from) ==
        IF from > n THEN 0
        ELSE IF i \in dynamic THEN from
        ELSE LET later == { k \in dynamic : k >= from }
             IN  IF later = {} THEN 0 ELSE MinOf(later)
      rows == { i \in (index + 1)..(n - 1) : first(i, i + 1) # 0 }
  IN  IF index <= n /\ first(index, inner) # 0 THEN << index, first(index, inner) >>
      ELSE IF rows = {} THEN << n + 1, n + 2 >>
      ELSE << MinOf(rows), first(MinOf(rows), MinOf(rows) + 1) >>

\* The two nested loops of stepWorld, from the pair (index, inner) on.
RECURSIVE pairLoop(_, _, _, _, _)
pairLoop(H, w, orderedBodies, pair, collisions) ==
  IF pair[1] > Len(orderedBodies) THEN [h |-> H, collisions |-> collisions]
  ELSE LET r == resolveBodyCollision(H, w, orderedBodies[pair[1]], orderedBodies[pair[2]],
                                     collisions)
       IN  pairLoop(r.h, w, orderedBodies,
                    nextPair(r.h, orderedBodies, pair[1], pair[2] + 1), r.collisions)

\* advance with the step size in seconds added to elapsedMs.
advanceSeconds(H, w, dtMs) ==
  [H EXCEPT !.world[w].tick = RAdd(@, I(1)), !.world[w].elapsedMs = RAdd(@, RDiv(dtMs, I(1000)))]

\* world.tick += 1; world.elapsedMs += dtMs
advance(H, w, dtMs) ==
  [H EXCEPT !.world[w].tick = RAdd(@, I(1)), !.world[w].elapsedMs = RAdd(@, dtMs)]

stepWorld(H, sourceWorld, actions, dtMs) ==
  LET c == cloneWorld(H, sourceWorld)
      world == c.r
      dtSeconds == RDiv(dtMs, I(1000))
      bodyById == MapOfBodies(c.h, c.h.arr[c.h.world[world].bodies], EmptyMap)
      a == applyActions(c.h, world, bodyById, actions, dtSeconds)
      H1 == integrateBodies(a.h, world, dtSeconds)
      wc == worldCollisionLoop(H1, world, H1.arr[H1.world[world].bodies], <<>>)
      orderedBodies == sortBodies(wc.h, wc.h.arr[wc.h.world[world].bodies])
      pc == pairLoop(wc.h, world, orderedBodies, nextPair(wc.h, orderedBodies, 1, 2), wc.collisions)
  IN  [h |-> advance(pc.h, world, dtMs), world |-> world, collisions |-> pc.collisions]

\* ------------------------------------------------------------------------
\* engine.ts: runPhysicsSimulation
\* A request is [world, actions, dtMs, steps]: world a reference, dtMs and
\* steps numbers or Undefined.  A missing actions list is the empty list.
\* ------------------------------------------------------------------------

\* effectiveDtMs without the clamp.
effectiveDtMsAsAsked(request) == Nullish(request.dtMs, DEFAULT_DT_MS)

effectiveDtMs(request) == clamp(Nullish(request.dtMs, DEFAULT_DT_MS), I(MIN_DT_MS), I(MAX_DT_MS))

effectiveSteps(request) ==
  RRound(clamp(Nullish(request.steps, I(DEFAULT_STEPS)), I(DEFAULT_STEPS), I(MAX_STEPS)))

\* stepActions with the actions handed to every sub-step.
stepActionsEveryStep(stepIndex, actions) == actions

\* stepIndex === 0 ? actions : []
stepActions(stepIndex, actions) == IF stepIndex = 0 THEN actions ELSE <<>>

RECURSIVE stepLoop(_, _, _, _, _, _, _)
stepLoop(H, world, collisions, stepIndex, steps, actions, dtMs) ==
  IF ~(stepIndex < steps) THEN [h |-> H, world |-> world, collisions |-> collisions]
  ELSE LET result == stepWorld(H, world, stepActions(stepIndex, actions), dtMs)
       IN  stepLoop(result.h, result.world, collisions \o result.collisions,
                    stepIndex + 1, steps, actions, dtMs)

runPhysicsSimulation(H, request) ==
  LET c == cloneWorld(H, request.world)
  IN  stepLoop(c.h, c.r, <<>>, 0, effectiveSteps(request).n, request.actions,
               effectiveDtMs(request))

\* ------------------------------------------------------------------------
\* The inputs of a call: worlds, actions, step sizes and step counts
\* ------------------------------------------------------------------------

\* The longest action list of a request.
MaxActions == 2
\* The largest step count of a request (besides MAX_STEPS and MAX_STEPS + 1).
MaxSteps == 2

\* A string of a payload, or a value that is no string; tag: undefined.
Str(s) == [str |-> TRUE, s |-> s]
NoStr == [str |-> FALSE, s |-> ""]
NoTag == NoStr

Body(id, position, velocity, halfSize, mass, isStatic, restitution, friction, linearDamping) ==
  [id |-> id, position |-> position, velocity |-> velocity, halfSize |-> halfSize,
   mass |-> mass, isStatic |-> isStatic, restitution |-> restitution, friction |-> friction,
   linearDamping |-> linearDamping, tag |-> NoTag]

\* a and b of the engine's body-body test; a body heading into the right-bottom
\* corner; a static wall; a body heading into the left-top corner; a heavier body
\* moving right; a static body that overlaps the wall; a body wider than the bounds.
BodyCatalog ==
  { Body("a", VI(4, 5), VI(10, 0), VI(1, 1), I(1), FALSE, I(1), I(0), I(0)),
    Body("a", VI(9, 9), VI(20, 30), VI(1, 1), I(2), FALSE, Undefined, Undefined, Undefined),
    Body("b", VI(6, 5), VI(-10, 0), VI(1, 1), I(1), FALSE, I(1), I(0), I(0)),
    Body("b", VI(5, 5), VI(0, 0), VI(2, 2), I(1), TRUE, Undefined, Undefined, Undefined),
    Body("b", VI(1, 1), VI(-10, -20), VI(1, 1), I(1), FALSE, Q(1, 2), Q(1, 4), I(0)),
    Body("c", VI(7, 5), VI(10, -5), VI(1, 1), I(3), FALSE, Q(1, 2), Q(1, 4), Q(1, 2)),
    Body("c", VI(6, 6), VI(3, 0), VI(1, 1), I(1), TRUE, I(1), I(1), I(0)),
    Body("c", VI(5, 1), VI(0, -10), VI(6, 1), I(1), FALSE, Q(1, 2), I(1), I(0)) }

\* Every arrangement of catalog bodies with pairwise distinct ids.
BodyLists ==
  { bs \in UNION { [1..k -> BodyCatalog] : k \in 0..3 } :
      \A i, j \in 1..Len(bs) : i # j => bs[i].id # bs[j].id }

\* The body lists that are stepped with actions: at most two of three bodies.
SmallBodyLists ==
  { bs \in BodyLists :
      /\ Len(bs) <= 2
      /\ \A i \in 1..Len(bs) :
           bs[i].position \in { VI(4, 5), VI(5, 5), VI(7, 5) } }

\* The body lists that are stepped MAX_STEPS times and more: bodies that bounce
\* without loss, so that no denominator grows.
LongBodyLists ==
  { bs \in BodyLists :
      /\ Len(bs) \in 1..2
      /\ bs[1].id = "a"
      /\ \A i \in 1..Len(bs) : bs[i].restitution = I(1) /\ ~bs[i].isStatic }

\* The world of the engine's tests, and one with gravity, a history and other defaults.
WorldFrames ==
  { [tick |-> I(0), elapsedMs |-> I(0), gravity |-> VI(0, 0),
     bounds |-> [min |-> VI(0, 0), max |-> VI(10, 10)],
     defaultRestitution |-> I(1), defaultFriction |-> I(0), defaultLinearDamping |-> I(0)],
    [tick |-> I(7), elapsedMs |-> I(140), gravity |-> VI(0, 10),
     bounds |-> [min |-> VI(0, 0), max |-> VI(10, 10)],
     defaultRestitution |-> Q(1, 2), defaultFriction |-> Q(1, 4),
     defaultLinearDamping |-> I(0)] }

WorldOf(frame, bodies) ==
  [tick |-> frame.tick, elapsedMs |-> frame.elapsedMs, gravity |-> frame.gravity,
   bounds |-> frame.bounds, defaultRestitution |-> frame.defaultRestitution,
   defaultFriction |-> frame.defaultFriction,
   defaultLinearDamping |-> frame.defaultLinearDamping, bodies |-> bodies]

NoBody == Body("", VI(0, 0), VI(0, 0), VI(0, 0), I(0), FALSE, Undefined, Undefined, Undefined)

Action(type, bodyId, vector, body) ==
  [type |-> type, bodyId |-> bodyId, vector |-> vector, body |-> body]

\* Action lists are the runs of at most MaxActions consecutive actions of this script.
ActionScript ==
  << Action("applyImpulse", "a", VI(2, -4), NoBody),
     Action("teleport", "b", VI(3, 3), NoBody),
     Action("removeBody", "a", VI(0, 0), NoBody),
     Action("spawnBody", "", VI(0, 0),
            Body("a", VI(2, 2), VI(0, 0), VI(1, 1), I(1), TRUE, Undefined, Undefined, Undefined)),
     Action("setVelocity", "a", VI(0, -10), NoBody),
     Action("applyForce", "c", VI(0, 300), NoBody),
     Action("spawnBody", "", VI(0, 0),
            Body("c", VI(2, 8), VI(10, 0), VI(1, 1), I(2), FALSE, I(1), I(0), I(0))),
     Action("removeBody", "c", VI(0, 0), NoBody),
     Action("applyImpulse", "d", VI(1, 1), NoBody),
     Action("spawnBody", "", VI(0, 0), NoBody),
     Action("applyImpulse", "b", VI(5, 5), NoBody),
     Action("applyForce", "b", VI(0, 300), NoBody),
     Action("spawnBody", "", VI(0, 0),
            Body("d", VI(8, 2), VI(0, 0), VI(1, 1), I(2), FALSE, I(1), I(0), I(0))),
     Action("setVelocity", "d", VI(3, 0), NoBody),
     Action("applyImpulse", "c", VI(3, -6), NoBody),
     Action("teleport", "a", VI(3, 3), NoBody) >>

ActionLists ==
  { IF i + k - 1 <= Len(ActionScript) THEN SubSeq(ActionScript, i, i + k - 1) ELSE <<>> :
      i \in 1..Len(ActionScript), k \in 0..MaxActions }

\* dtMs of a request: inside [MIN_DT_MS, MAX_DT_MS], and above it.
DtDomain == { I(20), I(100), I(250) }

\* steps of a request: below DEFAULT_STEPS, and up to MaxSteps.
StepsDomain == { I(k) : k \in 0..MaxSteps }

\* A world with a damped body is stepped once, by a request that leaves steps out
\* or asks for one step: damping multiplies the size of every fraction at each step.
StepsFor(bodies) ==
  IF \A i \in 1..Len(bodies) : bodies[i].linearDamping \in { Undefined, I(0) }
  THEN StepsDomain
  ELSE { Undefined, I(DEFAULT_STEPS) }

\* steps of a request: MAX_STEPS, and above it.
LongStepsDomain == { I(MAX_STEPS), I(MAX_STEPS + 1) }

\* The caller's objects, put on the heap.
AllocBody(H, body) ==
  LET p == Len(H.vec)
  IN  [h |-> [H EXCEPT !.vec = @ \o << body.position, body.velocity, body.halfSize >>,
                       !.body = Append(@, [body EXCEPT !.position = p + 1, !.velocity = p + 2,
                                                       !.halfSize = p + 3])],
       r |-> Len(H.body) + 1]

RECURSIVE AllocBodies(_, _, _)
RECURSIVE AllocRestOfBodies(_, _)
AllocBodies(H, bodies, acc) ==
  IF bodies = <<>> THEN [h |-> H, r |-> acc]
  ELSE IF Len(bodies) = 1 THEN clonedBehind(AllocBody(H, bodies[1]), acc)
  ELSE AllocRestOfBodies(AllocBodies(H, FirstHalf(bodies), acc), SecondHalf(bodies))

AllocRestOfBodies(first, bodies) ==
  IF Len(first.r) > 0 THEN AllocBodies(first.h, bodies, first.r) ELSE first

AllocWorld(H, world) ==
  LET g == Len(H.vec)
      H1 == [H EXCEPT !.vec = @ \o << world.gravity, world.bounds.min, world.bounds.max >>,
                      !.bnd = Append(@, [min |-> g + 2, max |-> g + 3])]
      m == AllocBodies(H1, world.bodies, <<>>)
      H2 == [m.h EXCEPT !.arr = Append(@, m.r)]
  IN  [h |-> [H2 EXCEPT !.world = Append(@, [world EXCEPT !.gravity = g + 1,
                                                          !.bounds = Len(H1.bnd),
                                                          !.bodies = Len(H2.arr)])],
       r |-> Len(H.world) + 1]

\* An action behind the actions made so far, with body the body made for it.
AllocatedAction(action, c, acc) == [h |-> c.h, r |-> Append(acc, [action EXCEPT !.body = c.r])]

AllocAction(H, action, acc) ==
  IF action.type = "spawnBody" THEN AllocatedAction(action, AllocBody(H, action.body), acc)
  ELSE [h |-> H, r |-> Append(acc, [action EXCEPT !.body = 0])]

RECURSIVE AllocActions(_, _, _)
RECURSIVE AllocRestOfActions(_, _)
AllocActions(H, actions, acc) ==
  IF actions = <<>> THEN [h |-> H, r |-> acc]
  ELSE IF Len(actions) = 1 THEN AllocAction(H, actions[1], acc)
  ELSE AllocRestOfActions(AllocActions(H, FirstHalf(actions), acc), SecondHalf(actions))

AllocRestOfActions(first, actions) ==
  IF Len(first.r) > 0 THEN AllocActions(first.h, actions, first.r) ELSE first

\* The request { world, actions, dtMs, steps } with its objects on a fresh heap.
BuildRequest(world, actions, dtMs, steps) ==
  LET w == AllocWorld(EmptyHeap, world)
      a == AllocActions(w.h, actions, <<>>)
  IN  [h |-> a.h,
       request |-> [world |-> w.r, actions |-> a.r, dtMs |-> dtMs, steps |-> steps]]

\* ------------------------------------------------------------------------
\* tool.ts: normalizeRequest
\* A payload is any JSON value.  A value read as an object carries obj (whether
\* it is one) and the fields the code reads; a value read as a number is a
\* rational, or one of Undefined, NaN, NotANumber; a value read as a string is
\* Str(s) or NoStr; a value read as an array carries whether it is one.
\* A function that may throw returns [ok, error, value].
\* ------------------------------------------------------------------------

MAX_BODIES == 300
MAX_ACTIONS == 100

\* A value of another type where a number is read.
NotANumber == [n |-> 2, d |-> 0]

Ok(value) == [ok |-> TRUE, error |-> "", value |-> value]
Throw(error) == [ok |-> FALSE, error |-> error, value |-> <<>>]

\* typeof value === "number" && Number.isFinite(value) ? value : fallback
toFiniteNumber(value, fallback) == IF IsNumber(value) THEN value ELSE fallback

readVector(value, fallback) ==
  IF ~value.obj THEN fallback
  ELSE V(toFiniteNumber(value.x, fallback.x), toFiniteNumber(value.y, fallback.y))

\* String.prototype.trim: the white space of the model's strings is the space.
RECURSIVE trimStart(_)
trimStart(s) == IF s # "" /\ SubSeq(s, 1, 1) = " " THEN trimStart(SubSeq(s, 2, Len(s))) ELSE s

RECURSIVE trimEnd(_)
trimEnd(s) ==
  IF s # "" /\ SubSeq(s, Len(s), Len(s)) = " " THEN trimEnd(SubSeq(s, 1, Len(s) - 1)) ELSE s

trim(s) == trimEnd(trimStart(s))

\* typeof value === "string" ? value.trim() : ""
trimmedString(value) == IF value.str THEN trim(value.s) ELSE ""

\* Math.max(Math.abs(halfSize.x), 0.0001) without the floor.
absoluteHalfSize(halfSize) == V(RAbs(halfSize.x), RAbs(halfSize.y))

\* Math.max(Math.abs(halfSize.x), 0.0001) with the sign turned, not dropped.
negatedHalfSize(halfSize) ==
  V(RMax(RNeg(halfSize.x), Q(1, 10000)), RMax(RNeg(halfSize.y), Q(1, 10000)))

\* Math.max(Math.abs(halfSize.x), 0.0001), and the same of y
positiveHalfSize(halfSize) ==
  V(RMax(RAbs(halfSize.x), Q(1, 10000)), RMax(RAbs(halfSize.y), Q(1, 10000)))

normalizeBody(value, index) ==
  IF ~value.obj THEN Throw("Body at index " \o ToString(index) \o " must be an object.")
  ELSE IF trimmedString(value.id) = ""
  THEN Throw("Body at index " \o ToString(index) \o " is missing a valid id.")
  ELSE Ok([id |-> trimmedString(value.id),
           position |-> readVector(value.position, VI(0, 0)),
           velocity |-> readVector(value.velocity, VI(0, 0)),
           halfSize |-> positiveHalfSize(readVector(value.halfSize, V(Q(1, 2), Q(1, 2)))),
           mass |-> RMax(toFiniteNumber(value.mass, I(1)), Q(1, 10000)),
           isStatic |-> value.isStatic,
           restitution |-> toFiniteNumber(value.restitution, Q(1, 4)),
           friction |-> toFiniteNumber(value.friction, Q(1, 5)),
           linearDamping |-> toFiniteNumber(value.linearDamping, Q(1, 50)),
           tag |-> IF value.tag.str THEN value.tag ELSE NoTag])

\* The action of a spawnBody: its body normalized, or what normalizeBody throws.
normalizeSpawnBody(body) ==
  IF body.ok THEN Ok(Action("spawnBody", "", VI(0, 0), body.value)) ELSE Throw(body.error)

\* An action is read as an object with type, bodyId, body and vector: vector is the
\* field that an action of its type carries (impulse, force, velocity, position).
normalizeAction(value, index) ==
  IF ~value.obj \/ ~value.type.str
  THEN Throw("Action at index " \o ToString(index) \o " must include a valid type.")
  ELSE IF value.type.s = "spawnBody" THEN normalizeSpawnBody(normalizeBody(value.body, index))
  ELSE IF value.type.s = "removeBody"
  THEN IF trimmedString(value.bodyId) = ""
       THEN Throw("removeBody action at index " \o ToString(index) \o " requires bodyId.")
       ELSE Ok(Action("removeBody", trimmedString(value.bodyId), VI(0, 0), NoBody))
  ELSE IF trimmedString(value.bodyId) = ""
  THEN Throw("Action at index " \o ToString(index) \o " requires a valid bodyId.")
  ELSE IF value.type.s \in { "applyImpulse", "applyForce", "setVelocity", "teleport" }
  THEN Ok(Action(value.type.s, trimmedString(value.bodyId),
                 readVector(value.vector, VI(0, 0)), NoBody))
  ELSE Throw("Unknown action type \"" \o value.type.s \o "\" at index "
               \o ToString(index) \o ".")

\* length > limit
exceedsLimitOrReaches(count, limit) == count >= limit

exceedsLimit(count, limit) == count > limit

\* array.map(normalize): the values, or what the first normalize that throws throws.
mapNormalized(results) ==
  IF \A i \in 1..Len(results) : results[i].ok
  THEN Ok([i \in 1..Len(results) |-> results[i].value])
  ELSE Throw(results[MinOf({ i \in 1..Len(results) : ~results[i].ok })].error)

\* The loop over idSet never finds a duplicate.
noDuplicate(bodies) == 0

\* The loop over idSet: the index of the first body whose id an earlier body has, or 0.
firstDuplicate(bodies) ==
  IF Cardinality({ bodies[i].id : i \in 1..Len(bodies) }) = Len(bodies) THEN 0
  ELSE MinOf({ i \in 1..Len(bodies) : \E j \in 1..(i - 1) : bodies[j].id = bodies[i].id })

\* Array.isArray(value) ? value : []
arrayOrEmpty(isArray, array) == IF isArray THEN array ELSE <<>>

\* normalizeWorld from the bounds on; bodies are the normalized bodies.
normalizeBounds(value, bodies, min, max) ==
  IF RLe(max.x, min.x) \/ RLe(max.y, min.y)
  THEN Throw("world.bounds.max must be greater than world.bounds.min.")
  ELSE Ok([tick |-> RMax(RRound(toFiniteNumber(value.tick, I(0))), I(0)),
           elapsedMs |-> RMax(toFiniteNumber(value.elapsedMs, I(0)), I(0)),
           gravity |-> readVector(value.gravity, VI(0, 12)),
           bounds |-> [min |-> min, max |-> max],
           defaultRestitution |-> toFiniteNumber(value.defaultRestitution, Q(1, 4)),
           defaultFriction |-> toFiniteNumber(value.defaultFriction, Q(1, 5)),
           defaultLinearDamping |-> toFiniteNumber(value.defaultLinearDamping, Q(1, 50)),
           bodies |-> bodies])

\* isObject(value.bounds) ? value.bounds : {}, and a field of it
boundsField(bounds, field) == IF bounds.obj THEN field ELSE [obj |-> FALSE, x |-> Undefined, y |-> Undefined]

\* normalizeWorld from the loop over idSet on.
normalizeIds(value, bodies, duplicate) ==
  IF duplicate # 0
  THEN Throw("Duplicate body id \"" \o bodies[duplicate].id \o "\" in world.bodies.")
  ELSE normalizeBounds(value, bodies,
                       readVector(boundsField(value.bounds, value.bounds.min), VI(0, 0)),
                       readVector(boundsField(value.bounds, value.bounds.max), VI(100, 100)))

\* normalizeWorld from rawBodies.map on.
normalizeBodies(value, bodies) ==
  IF ~bodies.ok THEN Throw(bodies.error)
  ELSE normalizeIds(value, bodies.value, firstDuplicate(bodies.value))

normalizeWorld(value) ==
  IF ~value.obj THEN Throw("world must be an object.")
  ELSE IF exceedsLimit(Len(arrayOrEmpty(value.bodiesIsArray, value.bodies)), MAX_BODIES)
  THEN Throw("world.bodies exceeds limit of " \o ToString(MAX_BODIES) \o ".")
  ELSE normalizeBodies(value,
         mapNormalized([i \in 1..Len(arrayOrEmpty(value.bodiesIsArray, value.bodies)) |->
                          normalizeBody(value.bodies[i], i - 1)]))

\* The object literal of normalizeRequest: world first, then actions, dtMs, steps.
normalizedRequest(payload, world, actions) ==
  IF ~world.ok THEN Throw(world.error)
  ELSE IF ~actions.ok THEN Throw(actions.error)
  ELSE Ok([world |-> world.value, actions |-> actions.value,
           dtMs |-> toFiniteNumber(payload.dtMs, Q(16667, 1000)),
           steps |-> RMax(RRound(toFiniteNumber(payload.steps, I(1))), I(1))])

normalizeRequest(payload) ==
  IF ~payload.obj THEN Throw("Request payload must be an object.")
  ELSE IF exceedsLimit(Len(arrayOrEmpty(payload.actionsIsArray, payload.actions)), MAX_ACTIONS)
  THEN Throw("actions exceeds limit of " \o ToString(MAX_ACTIONS) \o ".")
  ELSE normalizedRequest(payload, normalizeWorld(payload.world),
         mapNormalized([i \in 1..Len(arrayOrEmpty(payload.actionsIsArray, payload.actions)) |->
                          normalizeAction(payload.actions[i], i - 1)]))

\* ------------------------------------------------------------------------
\* The payloads of a tool call
\* ------------------------------------------------------------------------

RawVec(x, y) == [obj |-> TRUE, x |-> x, y |-> y]
RawVI(x, y) == RawVec(I(x), I(y))
NotAVector == [obj |-> FALSE, x |-> Undefined, y |-> Undefined]

\* isStatic of a raw body is the truth of Boolean(value.isStatic).
RawBody(id, position, velocity, halfSize, mass, isStatic, restitution, friction, linearDamping, tag) ==
  [obj |-> TRUE, id |-> id, position |-> position, velocity |-> velocity,
   halfSize |-> halfSize, mass |-> mass, isStatic |-> isStatic, restitution |-> restitution,
   friction |-> friction, linearDamping |-> linearDamping, tag |-> tag]

NotABody ==
  [obj |-> FALSE, id |-> NoStr, position |-> NotAVector, velocity |-> NotAVector,
   halfSize |-> NotAVector, mass |-> Undefined, isStatic |-> FALSE, restitution |-> Undefined,
   friction |-> Undefined, linearDamping |-> Undefined, tag |-> NoStr]

\* The two bodies of the engine's body-body test, the second with a tag; a body whose
\* id is "a" between spaces; bodies whose id is empty, blank, and no string; a value
\* that is no object; a static body whose other fields are missing or malformed.
RawBodyCatalog ==
  { RawBody(Str("a"), RawVI(4, 5), RawVI(10, 0), RawVI(1, 1), I(1), FALSE, I(1), I(0), I(0), NoStr),
    RawBody(Str("b"), RawVI(6, 5), RawVI(-10, 0), RawVI(1, 1), I(1), FALSE, I(1), I(0), I(0),
            Str("crate")),
    RawBody(Str(" a "), RawVI(8, 8), RawVI(0, 0), RawVI(1, 1), I(2), FALSE, I(1), I(0), I(0), NoStr),
    RawBody(Str(""), RawVI(2, 2), RawVI(0, 0), RawVI(1, 1), I(1), FALSE, I(1), I(0), I(0), NoStr),
    RawBody(Str("  "), RawVI(2, 2), RawVI(0, 0), RawVI(1, 1), I(1), FALSE, I(1), I(0), I(0), NoStr),
    RawBody(NoStr, RawVI(2, 2), RawVI(0, 0), RawVI(1, 1), I(1), FALSE, I(1), I(0), I(0), NoStr),
    NotABody,
    RawBody(Str("w"), NotAVector, RawVec(NaN, I(3)), RawVec(I(-2), I(0)), I(0), TRUE,
            NotANumber, Undefined, NaN, NoStr) }

MaxRawBodies == 3

RawBodyLists == UNION { [1..k -> RawBodyCatalog] : k \in 0..MaxRawBodies }

RawAction(type, bodyId, vector, body) ==
  [obj |-> TRUE, type |-> type, bodyId |-> bodyId, vector |-> vector, body |-> body]

NotAnAction ==
  [obj |-> FALSE, type |-> NoStr, bodyId |-> NoStr, vector |-> NotAVector, body |-> NotABody]

\* The six types; an unknown type with a bodyId, without one, and with a blank one;
\* a type that is no string; a value that is no object; actions without the bodyId
\* or the body they need; a vector that is no object; ids between spaces.
RawActionCatalog ==
  { RawAction(Str("applyImpulse"), Str("a"), RawVI(2, -4), NotABody),
    RawAction(Str("applyForce"), Str("b"), RawVI(0, 300), NotABody),
    RawAction(Str("setVelocity"), Str("a"), NotAVector, NotABody),
    RawAction(Str("teleport"), Str(" b"), RawVI(3, 3), NotABody),
    RawAction(Str("teleport"), NoStr, RawVI(3, 3), NotABody),
    RawAction(Str("removeBody"), Str(" b "), NotAVector, NotABody),
    RawAction(Str("removeBody"), NoStr, NotAVector, NotABody),
    RawAction(Str("spawnBody"), NoStr, NotAVector,
              RawBody(Str("c"), RawVI(2, 8), RawVI(10, 0), RawVI(1, 1), I(2), FALSE, I(1), I(0),
                      I(0), NoStr)),
    RawAction(Str("spawnBody"), NoStr, NotAVector,
              RawBody(Str(" a"), RawVI(2, 2), RawVI(0, 0), RawVI(1, 1), I(1), TRUE, Undefined,
                      Undefined, Undefined, NoStr)),
    RawAction(Str("spawnBody"), Str("a"), NotAVector, NotABody),
    RawAction(Str("dance"), Str("a"), NotAVector, NotABody),
    RawAction(Str("dance"), NoStr, NotAVector, NotABody),
    RawAction(Str("dance"), Str("  "), NotAVector, NotABody),
    RawAction(NoStr, Str("a"), RawVI(1, 1), NotABody),
    NotAnAction }

MaxRawActions == 2

RawActionLists == UNION { [1..k -> RawActionCatalog] : k \in 0..MaxRawActions }

RawBounds(min, max) == [obj |-> TRUE, min |-> min, max |-> max]
NoBounds == [obj |-> FALSE, min |-> NotAVector, max |-> NotAVector]

RawWorld(bodies, bounds, tick, elapsedMs, gravity, defaultRestitution, defaultFriction, defaultLinearDamping) ==
  [obj |-> TRUE, bodiesIsArray |-> TRUE, bodies |-> bodies, bounds |-> bounds, tick |-> tick,
   elapsedMs |-> elapsedMs, gravity |-> gravity, defaultRestitution |-> defaultRestitution,
   defaultFriction |-> defaultFriction, defaultLinearDamping |-> defaultLinearDamping]

\* A world with the bounds, the gravity and the clock of the tool's tests.
TestWorld(bodies) ==
  RawWorld(bodies, RawBounds(RawVI(0, 0), RawVI(20, 20)), I(0), I(0), RawVI(0, 0), I(1), I(0), I(0))

NotAWorld == [TestWorld(<<>>) EXCEPT !.obj = FALSE]

\* Worlds whose fields are missing or malformed: no bounds, no defaults and no
\* gravity, a tick that is no whole number and a negative time; bounds whose max
\* does not exceed min on one axis; bounds of which only max is an object; bodies
\* that are no array.
WorldVariants(bodies) ==
  { TestWorld(bodies),
    RawWorld(bodies, NoBounds, Q(7, 2), I(-5), NotAVector, Undefined, NaN, NotANumber),
    RawWorld(bodies, RawBounds(RawVI(0, 0), RawVI(0, 20)), I(0), I(0), RawVI(0, 0), I(1), I(0), I(0)),
    RawWorld(bodies, RawBounds(RawVI(0, 30), RawVI(20, 20)), I(0), I(0), RawVI(0, 0), I(1), I(0), I(0)),
    RawWorld(bodies, RawBounds(NotAVector, RawVI(10, 10)), I(-3), I(40), RawVec(I(0), NaN), I(1),
             I(0), I(0)),
    [TestWorld(bodies) EXCEPT !.bodiesIsArray = FALSE],
    NotAWorld }

Payload(world, actions, dtMs, steps) ==
  [obj |-> TRUE, world |-> world, actionsIsArray |-> TRUE, actions |-> actions, dtMs |-> dtMs,
   steps |-> steps]

NotAPayload == [Payload(NotAWorld, <<>>, Undefined, Undefined) EXCEPT !.obj = FALSE]

\* The body of index i of a world at a limit: static, as the stepper visits every
\* pair of bodies that are not both static.
LimitBody(i) ==
  RawBody(Str("b-" \o ToString(i)), RawVI(1, 1), RawVI(0, 0), RawVI(1, 1), I(1), TRUE, Undefined,
          Undefined, Undefined, NoStr)

LimitBodies(n) == [i \in 1..n |-> LimitBody(i - 1)]

\* The actions of the test of the limits, and values that are no actions.
LimitActions(n, valid) ==
  [i \in 1..n |-> IF valid THEN RawAction(Str("removeBody"), Str("b-0"), NotAVector, NotABody)
                  ELSE NotAnAction]

\* The static body lists, which are stepped by any dtMs without a fraction growing.
StaticBodyLists ==
  { bs \in RawBodyLists : Len(bs) <= 1 /\ \A i \in 1..Len(bs) : bs[i].isStatic }

\* dtMs and steps of a payload: missing, malformed, out of range, fractional.
RawDtDomain == { Undefined, NaN, NotANumber, I(0), I(20), I(250) }
RawStepsDomain == { Undefined, NaN, NotANumber, I(-1), I(0), Q(5, 2), I(3), I(40) }

\* ------------------------------------------------------------------------
\* The call as a state machine
\* ------------------------------------------------------------------------

VARIABLES
  heap,      \* the objects
  request,   \* the caller's request
  snapshot,  \* the value of the caller's world when the call was made
  pc,        \* where the call stands
  rps,       \* the locals of runPhysicsSimulation
  sw,        \* the locals of stepWorld
  result,    \* what runPhysicsSimulation returned
  payload,   \* the payload of runGamePhysicsTool
  error,     \* the message of the error that runGamePhysicsTool threw
  http       \* the request and the response of POST

vars == << heap, request, snapshot, pc, rps, sw, result, payload, error, http >>

\* A call that POST did not make.
NoHttp == [json |-> TRUE, status |-> 0, body |-> <<>>]

NoRps == [dtMs |-> I(0), steps |-> 0, actions |-> <<>>, world |-> 0, collisions |-> <<>>,
          stepIndex |-> 0]

NoSw == [world |-> 0, source |-> 0, dtSeconds |-> I(0), collisions |-> <<>>, bodyById |-> EmptyMap,
         actions |-> <<>>, actionIdx |-> 1, bodyIdx |-> 1, orderedBodies |-> <<>>,
         index |-> 1, inner |-> 2]

NoResult == [world |-> 0, collisions |-> <<>>]

InitWith(world, actions, dtMs, steps) ==
  LET b == BuildRequest(world, actions, dtMs, steps)
  IN  /\ heap = b.h
      /\ request = b.request
      /\ snapshot = world
      /\ pc = "idle"
      /\ rps = NoRps
      /\ sw = NoSw
      /\ result = NoResult
      /\ payload = NotAPayload
      /\ error = ""
      /\ http = NoHttp

\* Worlds of every arrangement, stepped without actions.
InitPhysics ==
  \E frame \in WorldFrames, bodies \in BodyLists, dtMs \in DtDomain,
     steps \in StepsDomain \cup { Undefined } :
    /\ steps \in StepsFor(bodies)
    /\ InitWith(WorldOf(frame, bodies), <<>>, dtMs, steps)

\* Small worlds, stepped with every action list.
InitActions ==
  \E frame \in WorldFrames, bodies \in SmallBodyLists, actions \in ActionLists,
     steps \in StepsDomain \cup { Undefined } :
    /\ steps \in StepsFor(bodies)
    /\ InitWith(WorldOf(frame, bodies), actions, I(20), steps)

\* Step counts at and above MAX_STEPS, on the world of the engine's tests.
InitLong ==
  \E frame \in { f \in WorldFrames : f.tick = I(0) }, bodies \in LongBodyLists,
     actions \in { SubSeq(ActionScript, 1, k) : k \in 0..1 }, steps \in LongStepsDomain :
    InitWith(WorldOf(frame, bodies), actions, I(100), steps)

\* linearDamping of a body: below, inside and above [0, 1].
DampingDomain == { I(-1), Q(1, 2), I(60) }

\* Worlds of one body in free motion, damped by every damping, stepped once.
InitDamped ==
  \E frame \in WorldFrames, damping \in DampingDomain, dtMs \in DtDomain :
    InitWith(WorldOf(frame, << Body("a", VI(4, 5), VI(10, -5), VI(1, 1), I(2), FALSE,
                                    I(1), I(0), damping) >>),
             <<>>, dtMs, I(1))

\* The bodies that crowd body a at the left wall: of a's mass, static, and heavier
\* than a, with friction and a velocity along the face of a.
CrowdingBodies ==
  { Body("b", V(Q(5, 2), I(5)), VI(-10, 0), VI(1, 1), I(1), FALSE, I(1), I(0), I(0)),
    Body("b", V(Q(5, 2), I(5)), VI(-10, 0), VI(1, 1), I(1), TRUE, I(1), I(0), I(0)),
    Body("b", V(Q(5, 2), I(5)), VI(-10, 4), VI(1, 1), I(3), FALSE, I(1), I(1), I(0)) }

\* Body a at the left wall and moving into it, and a body b that overlaps a after
\* integration: both fit in the bounds.
InitCrowded ==
  \E b \in CrowdingBodies :
    InitWith(WorldOf(CHOOSE frame \in WorldFrames : frame.tick = I(0),
                     << Body("a", VI(1, 5), VI(-10, 0), VI(1, 1), I(1), FALSE, I(1), Q(1, 4), I(0)),
                        b >>),
             <<>>, I(20), I(1))

Init == InitPhysics \/ InitActions \/ InitDamped \/ InitCrowded

\* runPhysicsSimulation, up to its loop.
Call ==
  /\ pc = "idle"
  /\ LET c == cloneWorld(heap, request.world)
     IN  /\ heap' = c.h
         /\ rps' = [dtMs |-> effectiveDtMs(request), steps |-> effectiveSteps(request).n,
                    actions |-> request.actions, world |-> c.r, collisions |-> <<>>,
                    stepIndex |-> 0]
  /\ pc' = "loop"
  /\ UNCHANGED << request, snapshot, sw, result, payload, error, http >>

\* One more iteration of the loop: stepWorld, up to its loop over the actions.
StepBegin ==
  /\ pc = "loop"
  /\ rps.stepIndex < rps.steps
  /\ LET c == cloneWorld(heap, rps.world)
     IN  /\ heap' = c.h
         /\ sw' = [NoSw EXCEPT !.world = c.r, !.source = rps.world,
                               !.dtSeconds = RDiv(rps.dtMs, I(1000)),
                               !.bodyById = MapOfBodies(c.h, c.h.arr[c.h.world[c.r].bodies], EmptyMap),
                               !.actions = stepActions(rps.stepIndex, rps.actions)]
  /\ pc' = "actions"
  /\ UNCHANGED << request, snapshot, rps, result, payload, error, http >>

\* One iteration of stepWorld's loop over the actions.
ApplyAction ==
  /\ pc = "actions"
  /\ sw.actionIdx <= Len(sw.actions)
  /\ LET r == applyAction(heap, sw.world, sw.bodyById, sw.actions[sw.actionIdx], sw.dtSeconds)
     IN  /\ heap' = r.h
         /\ sw' = [sw EXCEPT !.bodyById = r.map, !.actionIdx = @ + 1]
  /\ UNCHANGED << request, snapshot, pc, rps, result, payload, error, http >>

IntegrateBodies ==
  /\ pc = "actions"
  /\ sw.actionIdx > Len(sw.actions)
  /\ heap' = integrateBodies(heap, sw.world, sw.dtSeconds)
  /\ pc' = "bounds"
  /\ UNCHANGED << request, snapshot, rps, sw, result, payload, error, http >>

\* One iteration of stepWorld's loop over world.bodies.
ResolveWorldCollision ==
  /\ pc = "bounds"
  /\ sw.bodyIdx <= Len(heap.arr[heap.world[sw.world].bodies])
  /\ LET r == resolveWorldCollision(heap, sw.world,
                 heap.arr[heap.world[sw.world].bodies][sw.bodyIdx], sw.collisions)
     IN  /\ heap' = r.h
         /\ sw' = [sw EXCEPT !.collisions = r.collisions, !.bodyIdx = @ + 1]
  /\ UNCHANGED << request, snapshot, pc, rps, result, payload, error, http >>

SortBodies ==
  /\ pc = "bounds"
  /\ sw.bodyIdx > Len(heap.arr[heap.world[sw.world].bodies])
  /\ LET orderedBodies == sortBodies(heap, heap.arr[heap.world[sw.world].bodies])
         pair == nextPair(heap, orderedBodies, 1, 2)
     IN  sw' = [sw EXCEPT !.orderedBodies = orderedBodies, !.index = pair[1], !.inner = pair[2]]
  /\ pc' = "pairs"
  /\ UNCHANGED << heap, request, snapshot, rps, result, payload, error, http >>

\* One pair of the nested loops of stepWorld that is not skipped; the loop
\* counters move to the next such pair.
ResolvePair ==
  /\ pc = "pairs"
  /\ sw.index <= Len(sw.orderedBodies)
  /\ LET r == resolveBodyCollision(heap, sw.world, sw.orderedBodies[sw.index],
                                   sw.orderedBodies[sw.inner], sw.collisions)
         pair == nextPair(r.h, sw.orderedBodies, sw.index, sw.inner + 1)
     IN  /\ heap' = r.h
         /\ sw' = [sw EXCEPT !.collisions = r.collisions, !.index = pair[1], !.inner = pair[2]]
  /\ UNCHANGED << request, snapshot, pc, rps, result, payload, error, http >>

\* The end of stepWorld, and of the loop iteration of runPhysicsSimulation that called it.
Advance ==
  /\ pc = "pairs"
  /\ sw.index > Len(sw.orderedBodies)
  /\ heap' = advance(heap, sw.world, rps.dtMs)
  /\ rps' = [rps EXCEPT !.world = sw.world, !.collisions = @ \o sw.collisions,
                        !.stepIndex = @ + 1]
  /\ pc' = "loop"
  /\ UNCHANGED << request, snapshot, sw, result, payload, error, http >>

Return ==
  /\ pc = "loop"
  /\ ~(rps.stepIndex < rps.steps)
  /\ result' = [world |-> rps.world, collisions |-> rps.collisions]
  /\ pc' = "done"
  /\ UNCHANGED << heap, request, snapshot, rps, sw, payload, error, http >>

Next ==
  \/ Call
  \/ StepBegin
  \/ ApplyAction
  \/ IntegrateBodies
  \/ ResolveWorldCollision
  \/ SortBodies
  \/ ResolvePair
  \/ Advance
  \/ Return

Spec == Init /\ [][Next]_vars

\* The same, with the calls of MAX_STEPS steps and more.
LongSpec == (Init \/ InitLong) /\ [][Next]_vars

\* ------------------------------------------------------------------------
\* tool.ts: runGamePhysicsTool
\* ------------------------------------------------------------------------

NoRequest == [world |-> 0, actions |-> <<>>, dtMs |-> Undefined, steps |-> Undefined]

NoWorld == WorldOf(CHOOSE f \in WorldFrames : f.tick = I(0), <<>>)

ToolInitWith(p) ==
  /\ payload = p
  /\ error = ""
  /\ http = NoHttp
  /\ heap = EmptyHeap
  /\ request = NoRequest
  /\ snapshot = NoWorld
  /\ pc = "tool"
  /\ rps = NoRps
  /\ sw = NoSw
  /\ result = NoResult

\* Every list of catalog bodies, in the world of the tests.
ToolBodies ==
  \E bodies \in RawBodyLists, steps \in { Undefined, I(2) } :
    ToolInitWith(Payload(TestWorld(bodies), <<>>, I(20), steps))

\* Every list of catalog actions, on the bodies of the tests.
ToolActions ==
  \E bodies \in { bs \in RawBodyLists : Len(bs) <= 2 /\ \A i \in 1..Len(bs) : bs[i].id.s = << "a", "b" >>[i] },
     actions \in RawActionLists :
    ToolInitWith(Payload(TestWorld(bodies), actions, I(20), I(1)))

\* Worlds, step sizes and step counts that are missing or malformed, and payloads
\* that are no objects or have no array of actions.
ToolDefaults ==
  \E bodies \in StaticBodyLists, dtMs \in RawDtDomain, steps \in RawStepsDomain :
    \/ \E world \in WorldVariants(bodies) : ToolInitWith(Payload(world, <<>>, dtMs, steps))
    \/ ToolInitWith(NotAPayload)
    \/ ToolInitWith([Payload(TestWorld(bodies), << NotAnAction >>, dtMs, steps)
                       EXCEPT !.actionsIsArray = FALSE])

\* Payloads at the limits and one above them, of valid entries and of others.
ToolLimits ==
  \E bodies \in { MAX_BODIES, MAX_BODIES + 1 }, actions \in { MAX_ACTIONS, MAX_ACTIONS + 1 },
     valid \in BOOLEAN :
    \/ ToolInitWith(Payload(TestWorld(LimitBodies(bodies)), LimitActions(actions, valid),
                            Undefined, Undefined))
    \/ ToolInitWith(Payload(NotAWorld, LimitActions(actions, valid), Undefined, Undefined))

\* mass of a raw body: missing, no finite number, none, negative, below the floor,
\* the floor, above it.
RawMassDomain == { Undefined, NaN, NotANumber, I(0), I(-3), Q(1, 20000), Q(1, 10000), I(2) }

\* A component of halfSize: missing, negative, zero, below the floor with either sign,
\* above it.
RawHalfDomain == { Undefined, I(-2), I(0), Q(-1, 20000), Q(1, 20000), I(1) }

\* halfSize of a raw body: every pair of components, and a value that is no object.
RawHalfSizes == { RawVec(x, y) : x, y \in RawHalfDomain } \cup { NotAVector }

\* A body at rest in the middle of the world of the tests.
BodyAtRest(id, halfSize, mass, isStatic) ==
  RawBody(Str(id), RawVI(5, 5), RawVI(0, 0), halfSize, mass, isStatic, I(1), I(0), I(0), NoStr)

\* Bodies whose mass and halfSize are missing or malformed, in world.bodies and in
\* a spawnBody action.
ToolRepairs ==
  \E mass \in RawMassDomain, halfSize \in RawHalfSizes, isStatic \in BOOLEAN :
    \/ ToolInitWith(Payload(TestWorld(<< BodyAtRest("a", halfSize, mass, isStatic) >>), <<>>,
                            I(20), I(2)))
    \/ ToolInitWith(Payload(TestWorld(<<>>),
                            << RawAction(Str("spawnBody"), NoStr, NotAVector,
                                         BodyAtRest("c", halfSize, mass, isStatic)) >>,
                            I(20), I(2)))

\* A body heading into the right wall, with and without restitution, friction and
\* linearDamping of its own, in a world with and without defaults.
ToolFallbacks ==
  \E own \in { << Undefined, Undefined, Undefined >>, << Q(1, 2), I(0), I(0) >> },
     default \in { << I(1), I(0), I(0) >>, << Undefined, Undefined, Undefined >> } :
    ToolInitWith(Payload(
      [TestWorld(<< RawBody(Str("a"), RawVec(Q(189, 10), I(5)), RawVI(10, 0), RawVI(1, 1), I(1),
                            FALSE, own[1], own[2], own[3], NoStr) >>)
         EXCEPT !.defaultRestitution = default[1], !.defaultFriction = default[2],
                !.defaultLinearDamping = default[3]],
      <<>>, I(20), I(1)))

\* A world at the limit of bodies, with an action that spawns one more.
ToolSpawnAtLimit ==
  ToolInitWith(Payload(TestWorld(LimitBodies(MAX_BODIES)),
                       << RawAction(Str("spawnBody"), NoStr, NotAVector, LimitBody(MAX_BODIES)) >>,
                       Undefined, Undefined))

ToolInit ==
  \/ ToolBodies
  \/ ToolActions
  \/ ToolDefaults
  \/ ToolLimits
  \/ ToolRepairs
  \/ ToolFallbacks
  \/ ToolSpawnAtLimit

\* normalizeRequest returns: runPhysicsSimulation is called with the request.
Normalize ==
  /\ pc = "tool"
  /\ normalizeRequest(payload).ok
  /\ LET r == normalizeRequest(payload).value
         b == BuildRequest(r.world, r.actions, r.dtMs, r.steps)
     IN  /\ heap' = b.h
         /\ request' = b.request
         /\ snapshot' = r.world
  /\ pc' = "idle"
  /\ UNCHANGED << rps, sw, result, payload, error, http >>

\* normalizeRequest throws: so does runGamePhysicsTool.
Reject ==
  /\ pc = "tool"
  /\ ~normalizeRequest(payload).ok
  /\ error' = normalizeRequest(payload).error
  /\ pc' = "failed"
  /\ UNCHANGED << heap, request, snapshot, rps, sw, result, payload, http >>

\* runGamePhysicsTool as a function of its payload (one that normalizeRequest
\* accepts): the returned world, by value, and the events.
runGamePhysicsTool(p) ==
  LET r == normalizeRequest(p).value
      b == BuildRequest(r.world, r.actions, r.dtMs, r.steps)
      f == runPhysicsSimulation(b.h, b.request)
  IN  [world |-> DerefWorld(f.h, f.world), collisions |-> f.collisions]

ToolNext ==
  \/ Normalize
  \/ Reject
  \/ Call
  \/ StepBegin
  \/ ApplyAction
  \/ IntegrateBodies
  \/ ResolveWorldCollision
  \/ SortBodies
  \/ ResolvePair
  \/ Advance
  \/ Return

ToolSpec == ToolInit /\ [][ToolNext]_vars

\* dtMs and steps of a request made of runPhysicsSimulation itself: missing, below
\* and above the range, at its ends, fractional.
DirectDtDomain == { Undefined, I(-5), I(0), Q(1, 2), I(MIN_DT_MS), Q(33, 2), I(MAX_DT_MS), I(250) }
DirectStepsDomain ==
  { Undefined, I(-3), I(0), Q(2, 5), Q(5, 2), I(3), I(MAX_STEPS), Q(65, 2), I(MAX_STEPS + 1) }

\* Worlds without a dynamic body, which any step size steps without a fraction growing.
DirectWorlds ==
  { WorldOf(frame, bodies) :
      frame \in WorldFrames,
      bodies \in { <<>>, << Body("w", VI(5, 5), VI(0, 0), VI(1, 1), I(1), TRUE, Undefined,
                                Undefined, Undefined) >> } }

\* Calls of runPhysicsSimulation itself, with every such step size and step count.
InitDirect ==
  \E world \in DirectWorlds, dtMs \in DirectDtDomain, steps \in DirectStepsDomain :
    InitWith(world, <<>>, dtMs, steps)

\* Calls of either entry point.
EntriesSpec == (InitDirect \/ ToolInit) /\ [][ToolNext]_vars

\* ------------------------------------------------------------------------
\* route.ts: POST
\* ------------------------------------------------------------------------

\* The message of the SyntaxError of request.json() on a body that is no JSON text.
JsonSyntaxError == "Unexpected end of JSON input"

\* A request whose body, when json says it is JSON text, parses to the payload p.
HttpInitWith(p, json) ==
  /\ payload = p
  /\ error = ""
  /\ http = [json |-> json, status |-> 0, body |-> <<>>]
  /\ heap = EmptyHeap
  /\ request = NoRequest
  /\ snapshot = NoWorld
  /\ pc = "post"
  /\ rps = NoRps
  /\ sw = NoSw
  /\ result = NoResult

\* Bodies of up to two catalog bodies and one catalog action, payloads without a
\* world and payloads that are no objects, and bodies that are no JSON text.
HttpInit ==
  \E bodies \in { bs \in RawBodyLists : Len(bs) <= 2 },
     actions \in { as \in RawActionLists : Len(as) <= 1 } :
    \/ HttpInitWith(Payload(TestWorld(bodies), actions, I(20), I(1)), TRUE)
    \/ HttpInitWith(Payload(NotAWorld, actions, I(20), I(1)), TRUE)
    \/ HttpInitWith(NotAPayload, TRUE)
    \/ HttpInitWith(NotAPayload, FALSE)

\* await request.json() resolves: runGamePhysicsTool is called.
ParseBody ==
  /\ pc = "post"
  /\ http.json
  /\ pc' = "tool"
  /\ UNCHANGED << heap, request, snapshot, rps, sw, result, payload, error, http >>

\* await request.json() rejects with a SyntaxError.
RejectBody ==
  /\ pc = "post"
  /\ ~http.json
  /\ error' = JsonSyntaxError
  /\ pc' = "caught"
  /\ UNCHANGED << heap, request, snapshot, rps, sw, result, payload, http >>

\* runGamePhysicsTool throws into the catch clause.
Catch ==
  /\ pc = "failed"
  /\ http.status = 0
  /\ pc' = "caught"
  /\ UNCHANGED << heap, request, snapshot, rps, sw, result, payload, error, http >>

\* The body of every 400 response, whatever was thrown.
genericFailure(message) == [ok |-> FALSE, error |-> "Invalid physics request."]

\* { ok: false, error: message }; every error thrown is an Error, with its message.
failureBody(message) == [ok |-> FALSE, error |-> message]

\* { ok: true, world: result.world, collisions: result.collisions }
successBody(H, r) == [ok |-> TRUE, world |-> DerefWorld(H, r.world), collisions |-> r.collisions]

\* return NextResponse.json({ ok: true, ... }): the status of a response is 200 by default.
Respond200 ==
  /\ pc = "done"
  /\ http.status = 0
  /\ http' = [http EXCEPT !.status = 200, !.body = successBody(heap, result)]
  /\ pc' = "responded"
  /\ UNCHANGED << heap, request, snapshot, rps, sw, result, payload, error >>

\* return NextResponse.json({ ok: false, error: message }, { status: 400 })
Respond400 ==
  /\ pc = "caught"
  /\ http' = [http EXCEPT !.status = 400, !.body = failureBody(error)]
  /\ pc' = "responded"
  /\ UNCHANGED << heap, request, snapshot, rps, sw, result, payload, error >>

HttpNext ==
  \/ ParseBody
  \/ RejectBody
  \/ Catch
  \/ Respond200
  \/ Respond400
  \/ ToolNext

HttpSpec == HttpInit /\ [][HttpNext]_vars

\* The state machine computes what the function computes.
MachineIsFunction ==
  pc = "done" =>
    LET f == runPhysicsSimulation(heap, request)
    IN  /\ DerefWorld(heap, result.world) = DerefWorld(f.h, f.world)
        /\ result.collisions = f.collisions

\* ------------------------------------------------------------------------
\* Properties
\* ------------------------------------------------------------------------

\* The references a world holds.
VecRefs(H, w) ==
  LET world == H.world[w]
      bodies == H.arr[world.bodies]
  IN  { world.gravity, H.bnd[world.bounds].min, H.bnd[world.bounds].max }
        \cup UNION { { H.body[bodies[i]].position, H.body[bodies[i]].velocity,
                       H.body[bodies[i]].halfSize } : i \in 1..Len(bodies) }

BodyRefs(H, w) == { H.arr[H.world[w].bodies][i] : i \in 1..Len(H.arr[H.world[w].bodies]) }

SharesNothing(H, w1, w2) ==
  /\ w1 # w2
  /\ H.world[w1].bodies # H.world[w2].bodies
  /\ H.world[w1].bounds # H.world[w2].bounds
  /\ VecRefs(H, w1) \cap VecRefs(H, w2) = {}
  /\ BodyRefs(H, w1) \cap BodyRefs(H, w2) = {}

Called == pc \in { "loop", "actions", "bounds", "pairs", "done" }

\* C1: runPhysicsSimulation never modifies the caller's world: at every point
\* of the call the caller's world is deep-equal to its value before the call,
\* and the world returned shares no vector, body, array or bounds object with it.
C1_InputWorldUnchanged ==
  Called =>
    /\ DerefWorld(heap, request.world) = snapshot
    /\ pc = "done" => SharesNothing(heap, request.world, result.world)

\* C1 witness: a call with actions has returned a world in which bodies have moved.
C1_Witness ==
  /\ pc = "done"
  /\ request.actions # <<>>
  /\ snapshot.bodies # <<>>
  /\ DerefWorld(heap, result.world).bodies # snapshot.bodies

\* The step count and step size of a request, as the contract states them.
ExpectedSteps(steps) ==
  IF steps = Undefined THEN 1
  ELSE IF RLt(steps, I(1)) THEN 1 ELSE IF RLt(I(32), steps) THEN 32 ELSE steps.n

ExpectedDtMs(dtMs) ==
  IF dtMs = Undefined THEN Q(16667, 1000)
  ELSE IF RLt(dtMs, I(1)) THEN I(1) ELSE IF RLt(I(100), dtMs) THEN I(100) ELSE dtMs

\* C3: after k completed steps of a call the world is at tick = input tick + k and
\* elapsedMs = input elapsedMs + k * (clamped dtMs), whatever actions and collisions
\* there were; the world returned is at input tick + N and input elapsedMs + N * d.
C3_TickAndTimeAdvance ==
  Called =>
    LET world == heap.world[rps.world]
        d == ExpectedDtMs(request.dtMs)
    IN  /\ world.tick = RAdd(snapshot.tick, I(rps.stepIndex))
        /\ world.elapsedMs = RAdd(snapshot.elapsedMs, RMul(I(rps.stepIndex), d))
        /\ pc = "done" =>
             /\ rps.stepIndex = ExpectedSteps(request.steps)
             /\ heap.world[result.world].tick = RAdd(snapshot.tick, I(ExpectedSteps(request.steps)))
             /\ heap.world[result.world].elapsedMs =
                  RAdd(snapshot.elapsedMs, RMul(I(ExpectedSteps(request.steps)), d))

\* C3 witness: a call of two steps with actions and collisions has returned.
C3_Witness ==
  /\ pc = "done"
  /\ rps.stepIndex = 2
  /\ request.actions # <<>>
  /\ result.collisions # <<>>

\* calls calls of runPhysicsSimulation with steps = 1, each on the world the one
\* before it returned, the first with the actions and the later ones with none.
RECURSIVE ChainOfCalls(_, _, _, _, _, _)
ChainOfCalls(H, world, actions, dtMs, calls, collisions) ==
  IF calls = 0 THEN [h |-> H, world |-> world, collisions |-> collisions]
  ELSE LET r == runPhysicsSimulation(H, [world |-> world, actions |-> actions,
                                         dtMs |-> dtMs, steps |-> I(1)])
       IN  ChainOfCalls(r.h, r.world, <<>>, dtMs, calls - 1, collisions \o r.collisions)

SameAsChain(calls) ==
  LET chain == ChainOfCalls(heap, request.world, request.actions, request.dtMs, calls, <<>>)
  IN  /\ DerefWorld(heap, result.world) = DerefWorld(chain.h, chain.world)
      /\ result.collisions = chain.collisions

WholeSteps == request.steps # Undefined /\ request.steps.d = 1

\* C2 as stated: for every whole steps N >= 1 a call returns the world and the
\* events of N chained calls with steps = 1, the first with the actions and the
\* later ones with none.
C2_AnyStepsIsChain ==
  (pc = "done" /\ WholeSteps /\ request.steps.n >= 1) => SameAsChain(request.steps.n)

\* C2, amended: for every whole steps N with 1 <= N <= MAX_STEPS a call returns the
\* world and the events of N chained calls with steps = 1, the first with the
\* actions and the later ones with none, the events concatenated in call order.
C2_StepsUpToMaxIsChain ==
  (pc = "done" /\ WholeSteps /\ request.steps.n >= 1 /\ request.steps.n <= MAX_STEPS)
    => SameAsChain(request.steps.n)

\* C2 witness: a call of MAX_STEPS steps with actions has returned, with collisions.
C2_Witness ==
  /\ pc = "done"
  /\ request.steps = I(MAX_STEPS)
  /\ request.actions # <<>>
  /\ result.collisions # <<>>

\* The world the call is working on: inside stepWorld its clone, else the world of
\* runPhysicsSimulation's loop.
CurrentWorld == IF pc \in { "actions", "bounds", "pairs" } THEN sw.world ELSE rps.world

\* The ids the request's removeBody actions name.
RemovedIds ==
  { request.actions[k].bodyId :
      k \in { n \in 1..Len(request.actions) : request.actions[n].type = "removeBody" } }

\* Every static body of the input world that no action removes is in the world the
\* call is working on, static, where it was and with the velocity it had.
StaticKept ==
  Called =>
    LET bodies == DerefWorld(heap, CurrentWorld).bodies
    IN  \A i \in 1..Len(snapshot.bodies) :
          (snapshot.bodies[i].isStatic /\ snapshot.bodies[i].id \notin RemovedIds) =>
            \E j \in 1..Len(bodies) :
              /\ bodies[j].id = snapshot.bodies[i].id
              /\ bodies[j].isStatic
              /\ bodies[j].position = snapshot.bodies[i].position
              /\ bodies[j].velocity = snapshot.bodies[i].velocity

\* No step of the call writes to a static body.
StaticUntouched ==
  \A b \in 1..Len(heap.body) : heap.body[b].isStatic => DerefBody(heap', b) = DerefBody(heap, b)

\* The pair loop never reaches resolveBodyCollision with two static bodies.
NoStaticPair ==
  (pc = "pairs" /\ sw.index <= Len(sw.orderedBodies)) =>
    ~(heap.body[sw.orderedBodies[sw.index]].isStatic
        /\ heap.body[sw.orderedBodies[sw.inner]].isStatic)

\* A step that resolves one pair of the pair loop.
PairStep == pc = "pairs" /\ pc' = "pairs"

\* The pair being resolved is a static body and a dynamic body that overlap.
StaticDynamicOverlap(a, b) ==
  /\ heap.body[a].isStatic # heap.body[b].isStatic
  /\ RLt(I(0), overlapOf(heap.vec[heap.body[a].halfSize].x, heap.vec[heap.body[b].halfSize].x,
                         deltaOf(heap, a, b).x))
  /\ RLt(I(0), overlapOf(heap.vec[heap.body[a].halfSize].y, heap.vec[heap.body[b].halfSize].y,
                         deltaOf(heap, a, b).y))

\* The dynamic body of the pair is moved by the whole depth along the normal, away
\* from the static body, and the two overlap no more.
PushedAway(a, b, normal, depth) ==
  LET dyn == IF heap.body[a].isStatic THEN b ELSE a
      before == heap.vec[heap.body[dyn].position]
      after == heap'.vec[heap'.body[dyn].position]
  IN  /\ after = IF dyn = b THEN add(before, scale(normal, depth))
                            ELSE subtract(before, scale(normal, depth))
      /\ \/ RLe(overlapOf(heap'.vec[heap'.body[a].halfSize].x, heap'.vec[heap'.body[b].halfSize].x,
                          deltaOf(heap', a, b).x), I(0))
         \/ RLe(overlapOf(heap'.vec[heap'.body[a].halfSize].y, heap'.vec[heap'.body[b].halfSize].y,
                          deltaOf(heap', a, b).y), I(0))

\* The step records exactly one event, for the pair (a, b).
OneEventFor(a, b, normal, depth) ==
  /\ Len(sw'.collisions) = Len(sw.collisions) + 1
  /\ SubSeq(sw'.collisions, 1, Len(sw.collisions)) = sw.collisions
  /\ LET event == sw'.collisions[Len(sw'.collisions)]
     IN  /\ event.aId = heap.body[a].id
         /\ event.bId = heap.body[b].id
         /\ event.normal = normal
         /\ event.depth = depth

\* What a step on an overlapping static-dynamic pair does; always is whether an
\* event is expected of a pair that is moving apart too.
StaticPairStep(always) ==
  PairStep =>
    LET a == sw.orderedBodies[sw.index]
        b == sw.orderedBodies[sw.inner]
        delta == deltaOf(heap, a, b)
        overlapX == overlapOf(heap.vec[heap.body[a].halfSize].x, heap.vec[heap.body[b].halfSize].x,
                              delta.x)
        overlapY == overlapOf(heap.vec[heap.body[a].halfSize].y, heap.vec[heap.body[b].halfSize].y,
                              delta.y)
        normal == normalOf(delta, overlapX, overlapY)
        depth == depthOf(overlapX, overlapY)
        velocityAlongNormal == dot(relativeVelocityOf(heap, a, b), normal)
    IN  StaticDynamicOverlap(a, b) =>
          /\ PushedAway(a, b, normal, depth)
          /\ IF always \/ RLe(velocityAlongNormal, I(0))
             THEN OneEventFor(a, b, normal, depth)
             ELSE sw'.collisions = sw.collisions

\* C4 as stated: a static body keeps its position and velocity whatever the gravity,
\* the actions that target it, the bounds and the collisions; a pair of static bodies
\* is never resolved; and every dynamic body that overlaps a static body is pushed
\* away and gets one event for the pair.
C4_StaticPairAlwaysEvent ==
  /\ [](StaticKept /\ NoStaticPair)
  /\ [][StaticUntouched /\ StaticPairStep(TRUE)]_vars

\* C4, amended: a static body keeps its position and velocity whatever the gravity,
\* the actions that target it, the bounds and the collisions; a pair of static bodies
\* is never resolved; every dynamic body that overlaps a static body is pushed away
\* by the overlap depth; and one event for the pair is recorded if the two are not
\* moving apart along the normal, none if they are.
C4_StaticImmovable ==
  /\ [](StaticKept /\ NoStaticPair)
  /\ [][StaticUntouched /\ StaticPairStep(FALSE)]_vars

\* C4 witness: a call has returned whose world had a static body that an action
\* targeted and that a dynamic body collided with, and another static body too.
C4_Witness ==
  /\ pc = "done"
  /\ \E i \in 1..Len(snapshot.bodies) :
       /\ snapshot.bodies[i].isStatic
       /\ \E k \in 1..Len(request.actions) :
            /\ request.actions[k].type \in { "applyImpulse", "applyForce", "setVelocity", "teleport" }
            /\ request.actions[k].bodyId = snapshot.bodies[i].id
       /\ \E n \in 1..Len(result.collisions) :
            snapshot.bodies[i].id \in { result.collisions[n].aId, result.collisions[n].bId }

\* The actions of a request, with the bodies they carry.
DerefActions(H, actions) ==
  [k \in 1..Len(actions) |->
     IF actions[k].type = "spawnBody"
     THEN [actions[k] EXCEPT !.body = DerefBody(H, actions[k].body)]
     ELSE [actions[k] EXCEPT !.body = NoBody]]

ArrayOrders(n) == { f \in [1..n -> 1..n] : \A i, j \in 1..n : f[i] = f[j] => i = j }

\* What a call returns for the request of this call with the bodies of its world
\* in the array order f.
ResultInOrder(f) ==
  LET b == BuildRequest([snapshot EXCEPT !.bodies = [i \in 1..Len(snapshot.bodies) |->
                                                        snapshot.bodies[f[i]]]],
                        DerefActions(heap, request.actions), request.dtMs, request.steps)
      r == runPhysicsSimulation(b.h, b.request)
  IN  [world |-> DerefWorld(r.h, r.world), collisions |-> r.collisions]

\* Position and velocity of every body id of a world.
FinalById(world) ==
  { [id |-> world.bodies[i].id, position |-> world.bodies[i].position,
     velocity |-> world.bodies[i].velocity] : i \in 1..Len(world.bodies) }

\* C5 as stated: whatever the array order of the bodies in the input world, a call
\* returns the same final position and velocity for every body id and the same
\* sequence of collision events.
C5_ArrayOrderIndependent ==
  pc = "done" =>
    \A f \in ArrayOrders(Len(snapshot.bodies)) :
      /\ FinalById(ResultInOrder(f).world) = FinalById(DerefWorld(heap, result.world))
      /\ ResultInOrder(f).collisions = result.collisions

\* What holds of C5: whatever the array order of the bodies in the input world, a call
\* returns the same final position and velocity for every body id and the same events,
\* the events of a step's boundary pass in another order.
PerBodyOrderIndependent ==
  pc = "done" =>
    \A f \in ArrayOrders(Len(snapshot.bodies)) :
      /\ FinalById(ResultInOrder(f).world) = FinalById(DerefWorld(heap, result.world))
      /\ Len(ResultInOrder(f).collisions) = Len(result.collisions)
      /\ { ResultInOrder(f).collisions[n] : n \in 1..Len(result.collisions) }
           = { result.collisions[n] : n \in 1..Len(result.collisions) }

\* A step that resolves one body of the boundary loop.
BoundsStep == pc = "bounds" /\ pc' = "bounds"

\* How far a body reaches past a side of the bounds (not past it: zero or less).
PastLeft(body, bounds) == RSub(bounds.min.x, RSub(body.position.x, body.halfSize.x))
PastRight(body, bounds) == RSub(RAdd(body.position.x, body.halfSize.x), bounds.max.x)
PastTop(body, bounds) == RSub(bounds.min.y, RSub(body.position.y, body.halfSize.y))
PastBottom(body, bounds) == RSub(RAdd(body.position.y, body.halfSize.y), bounds.max.y)

\* A side that is penetrated by past > 0: the velocity component on the side's axis,
\* if it points into the side (into), becomes -v * restitution and the other component
\* is multiplied by 1 - friction; else the velocity stays.
ReflectX(v, past, into, restitution, friction) ==
  IF RLt(I(0), past) /\ into
  THEN V(RMul(RNeg(v.x), restitution), RMul(v.y, RSub(I(1), friction)))
  ELSE v

ReflectY(v, past, into, restitution, friction) ==
  IF RLt(I(0), past) /\ into
  THEN V(RMul(v.x, RSub(I(1), friction)), RMul(RNeg(v.y), restitution))
  ELSE v

AfterLeft(v, body, bounds, e, f) == ReflectX(v, PastLeft(body, bounds), RLt(v.x, I(0)), e, f)
AfterRight(v, body, bounds, e, f) == ReflectX(v, PastRight(body, bounds), RLt(I(0), v.x), e, f)
AfterTop(v, body, bounds, e, f) == ReflectY(v, PastTop(body, bounds), RLt(v.y, I(0)), e, f)
AfterBottom(v, body, bounds, e, f) == ReflectY(v, PastBottom(body, bounds), RLt(I(0), v.y), e, f)

\* The velocity after the sides have been taken in turn: left, right, top, bottom.
ReflectedVelocity(body, bounds, e, f) ==
  AfterBottom(AfterTop(AfterRight(AfterLeft(body.velocity, body, bounds, e, f),
                                  body, bounds, e, f), body, bounds, e, f), body, bounds, e, f)

\* Exactly one of the events is for the side of this normal; it has this depth.
OneWorldEvent(events, id, normal, depth) ==
  \E n \in 1..Len(events) :
    /\ events[n].aId = id /\ events[n].bId = "__world__"
    /\ events[n].normal = normal /\ events[n].depth = depth
    /\ \A m \in 1..Len(events) : events[m].normal = normal => m = n

\* The events of a body: one for each side it is past, and no other.
WorldEvents(events, body, bounds) ==
  /\ Len(events) = Cardinality({ side \in { "left", "right", "top", "bottom" } :
                     RLt(I(0), CASE side = "left" -> PastLeft(body, bounds)
                                 [] side = "right" -> PastRight(body, bounds)
                                 [] side = "top" -> PastTop(body, bounds)
                                 [] side = "bottom" -> PastBottom(body, bounds)) })
  /\ RLt(I(0), PastLeft(body, bounds)) =>
       OneWorldEvent(events, body.id, VI(1, 0), PastLeft(body, bounds))
  /\ RLt(I(0), PastRight(body, bounds)) =>
       OneWorldEvent(events, body.id, VI(-1, 0), PastRight(body, bounds))
  /\ RLt(I(0), PastTop(body, bounds)) =>
       OneWorldEvent(events, body.id, VI(0, 1), PastTop(body, bounds))
  /\ RLt(I(0), PastBottom(body, bounds)) =>
       OneWorldEvent(events, body.id, VI(0, -1), PastBottom(body, bounds))

\* After the step the body is flush with every side it was past; with anySize
\* FALSE, this is asked only of a side whose opposite side the body was not past too.
Flush(before, after, bounds, anySize) ==
  /\ (RLt(I(0), PastLeft(before, bounds)) /\ (anySize \/ RLe(PastRight(before, bounds), I(0))))
       => PastLeft(after, bounds) = I(0)
  /\ (RLt(I(0), PastRight(before, bounds)) /\ (anySize \/ RLe(PastLeft(before, bounds), I(0))))
       => PastRight(after, bounds) = I(0)
  /\ (RLt(I(0), PastTop(before, bounds)) /\ (anySize \/ RLe(PastBottom(before, bounds), I(0))))
       => PastTop(after, bounds) = I(0)
  /\ (RLt(I(0), PastBottom(before, bounds)) /\ (anySize \/ RLe(PastTop(before, bounds), I(0))))
       => PastBottom(after, bounds) = I(0)

\* The body is moved back by the depth of every side it was past.
MovedBack(before, after, bounds) ==
  after.position =
    V(RSub(RAdd(before.position.x, RMax(PastLeft(before, bounds), I(0))),
           RMax(PastRight(before, bounds), I(0))),
      RSub(RAdd(before.position.y, RMax(PastTop(before, bounds), I(0))),
           RMax(PastBottom(before, bounds), I(0))))

\* What a step of the boundary loop does to a dynamic body.
BoundaryResolution(anySize) ==
  BoundsStep =>
    LET b == heap.arr[heap.world[sw.world].bodies][sw.bodyIdx]
        before == DerefBody(heap, b)
        after == DerefBody(heap', b)
        bounds == DerefWorld(heap, sw.world).bounds
        events == SubSeq(sw'.collisions, Len(sw.collisions) + 1, Len(sw'.collisions))
    IN  ~before.isStatic =>
          /\ SubSeq(sw'.collisions, 1, Len(sw.collisions)) = sw.collisions
          /\ MovedBack(before, after, bounds)
          /\ Flush(before, after, bounds, anySize)
          /\ after.velocity = ReflectedVelocity(before, bounds,
                                getBodyRestitution(heap, sw.world, b),
                                getBodyFriction(heap, sw.world, b))
          /\ WorldEvents(events, before, bounds)

\* C6 as stated: every dynamic body that is past a side of the bounds after integration
\* is moved back by the depth and is then flush with that side; its velocity is
\* reflected on a side it points into (-v * restitution, the other component times
\* 1 - friction) and else unchanged; and one "__world__" event with the side's normal
\* and the depth is recorded for each side it was past.
C6_BoundaryFlushAnySize == [][BoundaryResolution(TRUE)]_vars

\* C6, amended: the same, the body being flush with a side it was past if it was not
\* past the opposite side too (a body wider or taller than the bounds is past both,
\* is moved back by both depths and ends flush with neither).
C6_BoundaryResolution == [][BoundaryResolution(FALSE)]_vars

\* C6 witness: the boundary loop has resolved a body in the right-bottom corner.
C6_Witness ==
  /\ pc = "bounds"
  /\ \E n, m \in 1..Len(sw.collisions) :
       /\ sw.collisions[n].aId = sw.collisions[m].aId
       /\ sw.collisions[n].bId = "__world__"
       /\ sw.collisions[n].normal = VI(-1, 0)
       /\ sw.collisions[m].normal = VI(0, -1)
       /\ RLt(I(0), sw.collisions[n].relativeSpeed)
       /\ RLt(I(0), sw.collisions[m].relativeSpeed)

\* The inverse mass of a body, as the contract states it: none for a static body.
InverseMass(body) == IF body.isStatic THEN I(0) ELSE RDiv(I(1), body.mass)

\* The restitution and friction in force for a body of a world.
RestitutionOf(body, world) ==
  IF body.restitution # Undefined THEN body.restitution ELSE world.defaultRestitution

FrictionOf(body, world) ==
  IF body.friction # Undefined THEN body.friction ELSE world.defaultFriction

\* What a step of the pair loop does to a pair that overlaps and is approaching
\* along the normal.
ImpulseResolution ==
  PairStep =>
    LET a == sw.orderedBodies[sw.index]
        b == sw.orderedBodies[sw.inner]
        world == DerefWorld(heap, sw.world)
        A == DerefBody(heap, a)
        B == DerefBody(heap, b)
        delta == subtract(B.position, A.position)
        overlapX == RSub(RAdd(A.halfSize.x, B.halfSize.x), RAbs(delta.x))
        overlapY == RSub(RAdd(A.halfSize.y, B.halfSize.y), RAbs(delta.y))
        n == IF RLt(overlapX, overlapY)
             THEN VI(IF RLe(I(0), delta.x) THEN 1 ELSE -1, 0)
             ELSE VI(0, IF RLe(I(0), delta.y) THEN 1 ELSE -1)
        depth == RMin(overlapX, overlapY)
        vrel == dot(subtract(B.velocity, A.velocity), n)
        e == RMin(RestitutionOf(A, world), RestitutionOf(B, world))
        j == RDiv(RMul(RNeg(RAdd(I(1), e)), vrel), RAdd(InverseMass(A), InverseMass(B)))
        afterA == DerefBody(heap', a).velocity
        afterB == DerefBody(heap', b).velocity
    IN  (RLt(I(0), overlapX) /\ RLt(I(0), overlapY) /\ RLt(vrel, I(0))) =>
          /\ dot(afterA, n) = RSub(dot(A.velocity, n), RMul(j, InverseMass(A)))
          /\ dot(afterB, n) = RAdd(dot(B.velocity, n), RMul(j, InverseMass(B)))
          /\ (FrictionOf(A, world) = I(0) \/ FrictionOf(B, world) = I(0)) =>
               /\ afterA = subtract(A.velocity, scale(n, RMul(j, InverseMass(A))))
               /\ afterB = add(B.velocity, scale(n, RMul(j, InverseMass(B))))
          /\ (~A.isStatic /\ ~B.isStatic /\ A.mass = B.mass /\ e = I(1)) =>
               /\ dot(afterA, n) = dot(B.velocity, n)
               /\ dot(afterB, n) = dot(A.velocity, n)
          /\ localeCompare(A.id, B.id) < 0
          /\ OneEventFor(a, b, n, depth)
          /\ sw'.collisions[Len(sw'.collisions)].relativeSpeed = RAbs(vrel)

\* The events of one step name a pair of bodies at most once.
OneEventPerPair ==
  \A n, m \in 1..Len(sw.collisions) :
    (/\ sw.collisions[n].bId # "__world__"
     /\ sw.collisions[n].aId = sw.collisions[m].aId
     /\ sw.collisions[n].bId = sw.collisions[m].bId) => n = m

\* C7: a pair that overlaps and is approaching along the normal n gets the normal
\* impulse j = -(1 + e) * (v_rel . n) / (invMassA + invMassB), e the smaller of the two
\* restitutions: A's velocity along n loses j * invMassA, B's gains j * invMassB (the
\* whole velocity changes so when there is no friction); two bodies of equal mass and
\* restitution 1 exchange their velocities along n; and the step records exactly one
\* event for the pair, with aId = A, the body of the smaller id, and bId = B.
C7_NormalImpulse == [][ImpulseResolution]_vars /\ []OneEventPerPair

\* C7 witness: the head-on collision of the engine's test has been resolved: a, moving
\* right at 10, and b, moving left at 10, have exchanged velocities, with one event.
C7_Witness ==
  /\ pc = "done"
  /\ rps.steps = 1
  /\ Len(snapshot.bodies) = 2
  /\ snapshot.bodies[1].id = "a" /\ snapshot.bodies[1].velocity = VI(10, 0)
  /\ snapshot.bodies[2].id = "b" /\ snapshot.bodies[2].velocity = VI(-10, 0)
  /\ DerefWorld(heap, result.world).bodies[1].velocity = VI(-10, 0)
  /\ DerefWorld(heap, result.world).bodies[2].velocity = VI(10, 0)
  /\ Len(result.collisions) = 1
  /\ result.collisions[1].aId = "a" /\ result.collisions[1].bId = "b"

\* ------------------------------------------------------------------------
\* runGamePhysicsTool: what it rejects
\* ------------------------------------------------------------------------

\* normalizeRequest has returned or thrown.
Decided == pc # "tool"

\* runGamePhysicsTool threw: no request was made, no world stepped, nothing returned.
Failed == pc = "failed" /\ heap = EmptyHeap /\ request = NoRequest /\ result = NoResult

HasActions == payload.obj /\ payload.actionsIsArray
HasBodies == payload.obj /\ payload.world.obj /\ payload.world.bodiesIsArray

TooManyActions == HasActions /\ Len(payload.actions) > 100
TooManyBodies == HasBodies /\ Len(payload.world.bodies) > 300

\* Every entry of the payload is one that is accepted among fewer: bodies with ids
\* that differ, actions of removeBody with a bodyId, in the world of the tests.
EntriesValid ==
  /\ payload.world = TestWorld(payload.world.bodies)
  /\ \A i \in 1..Len(payload.world.bodies) : payload.world.bodies[i] = LimitBody(i - 1)
  /\ \A i \in 1..Len(payload.actions) :
       payload.actions[i] = RawAction(Str("removeBody"), Str("b-0"), NotAVector, NotABody)

\* C8: once normalizeRequest has ended, a payload with more than 100 actions has
\* failed with "actions exceeds limit of 100.", whatever its world and its entries
\* are; a payload with more than 300 bodies has failed, with "world.bodies exceeds
\* limit of 300." unless it has more than 100 actions as well; a failure leaves no
\* request and no stepped world; a payload of exactly 100 actions and exactly 300
\* bodies, all of them valid, has not failed.
C8_SizeLimits ==
  Decided =>
    /\ TooManyActions => Failed /\ error = "actions exceeds limit of 100."
    /\ TooManyBodies => Failed
    /\ TooManyBodies /\ ~TooManyActions => error = "world.bodies exceeds limit of 300."
    /\ (/\ HasActions /\ Len(payload.actions) = 100
        /\ HasBodies /\ Len(payload.world.bodies) = 300
        /\ EntriesValid) => pc # "failed" /\ error = ""

\* C8 witness: the payload of the test with 301 bodies has failed with its message.
C8_Witness ==
  /\ Failed
  /\ TooManyBodies /\ Len(payload.world.bodies) = 301
  /\ HasActions /\ Len(payload.actions) = 100
  /\ error = "world.bodies exceeds limit of 300."

\* A body without a non-empty string id: no object, an id that is no string, an empty id.
LacksId(body) == ~body.obj \/ ~body.id.str \/ body.id.s = ""

SomeBodyLacksId ==
  \E i \in 1..Len(payload.world.bodies) : LacksId(payload.world.bodies[i])

\* The bodies that have an id.
WithId == { i \in 1..Len(payload.world.bodies) : ~LacksId(payload.world.bodies[i]) }

\* Two of them have the same id: there are fewer ids than bodies that have one.
TwoBodiesShareId ==
  Cardinality({ payload.world.bodies[i].id.s : i \in WithId }) < Cardinality(WithId)

\* The bodies whose id, without the white space around it, is that of an earlier body.
Repeated ==
  { i \in 1..Len(payload.world.bodies) :
      \E j \in 1..(i - 1) : trim(payload.world.bodies[j].id.s) = trim(payload.world.bodies[i].id.s) }

\* One of them is: there are fewer such ids than bodies.
SomeRepeated ==
  Cardinality({ trim(payload.world.bodies[i].id.s) : i \in 1..Len(payload.world.bodies) })
    < Len(payload.world.bodies)

\* Nothing but the ids of the bodies stands in the way of the payload: every body is
\* an object with an id that trimming leaves non-empty, and there are no more of
\* them, and no more actions, than the limits.
OnlyIdsAtFault ==
  /\ HasBodies /\ ~TooManyBodies
  /\ ~TooManyActions
  /\ \A i \in 1..Len(payload.world.bodies) :
       ~LacksId(payload.world.bodies[i]) /\ trim(payload.world.bodies[i].id.s) # ""

\* The ids of the bodies of a world.
IdsOf(H, bodies) == { H.body[bodies[i]].id : i \in 1..Len(bodies) }

\* Every world on the heap has non-empty ids that differ pairwise: as many ids as bodies.
DistinctIds ==
  \A w \in 1..Len(heap.world) :
    /\ "" \notin IdsOf(heap, heap.arr[heap.world[w].bodies])
    /\ Cardinality(IdsOf(heap, heap.arr[heap.world[w].bodies]))
         = Len(heap.arr[heap.world[w].bodies])

\* C9: once normalizeRequest has ended, a payload with a world in which a body lacks
\* a non-empty string id, or in which two bodies share an id, has failed, and no
\* world was stepped; when only the ids are at fault and one repeats, the message is
\* `Duplicate body id "<id>" in world.bodies.` with the first id that repeats; and
\* every world that the stepper is given, clones or steps has pairwise distinct,
\* non-empty body ids.
C9_IdsValidated ==
  /\ Decided /\ HasBodies /\ (SomeBodyLacksId \/ TwoBodiesShareId) => Failed
  /\ Decided /\ OnlyIdsAtFault /\ SomeRepeated =>
       /\ Failed
       /\ error = "Duplicate body id \""
                    \o trim(payload.world.bodies[MinOf(Repeated)].id.s)
                    \o "\" in world.bodies."
  /\ DistinctIds

\* C9 witness: the payload of the test, two bodies of one id, has failed with the message.
C9_Witness ==
  /\ Failed
  /\ HasBodies /\ Len(payload.world.bodies) = 2
  /\ payload.world.bodies[1].id = Str("a") /\ payload.world.bodies[2].id = Str("a")
  /\ error = "Duplicate body id \"a\" in world.bodies."

ActionTypes == { "applyImpulse", "applyForce", "setVelocity", "teleport", "spawnBody", "removeBody" }

\* The actions that are objects with a string type that is none of the six.
UnknownTypes ==
  { i \in 1..Len(payload.actions) :
      /\ payload.actions[i].obj
      /\ payload.actions[i].type.str
      /\ payload.actions[i].type.s \notin ActionTypes }

\* Nothing but the actions stands in the way of the payload.
OnlyActionsAtFault ==
  /\ HasActions /\ ~TooManyActions
  /\ normalizeWorld(payload.world).ok

UnknownMessage(i) ==
  "Unknown action type \"" \o payload.actions[i].type.s \o "\" at index " \o ToString(i - 1) \o "."

\* C10: once normalizeRequest has ended, a payload whose first action at fault has a
\* string type that is none of the six has failed with `Unknown action type "<type>"
\* at index <index>.`, index counting the actions from 0, and no world is returned.
C10_UnknownTypeMessage ==
  (/\ Decided
   /\ OnlyActionsAtFault
   /\ UnknownTypes # {}
   /\ \A j \in 1..(MinOf(UnknownTypes) - 1) : normalizeAction(payload.actions[j], j - 1).ok)
    => Failed /\ error = UnknownMessage(MinOf(UnknownTypes))

\* The same of the actions of unknown type that have a bodyId.
UnknownTypeWithBodyId ==
  (/\ Decided
   /\ OnlyActionsAtFault
   /\ UnknownTypes # {}
   /\ trimmedString(payload.actions[MinOf(UnknownTypes)].bodyId) # ""
   /\ \A j \in 1..(MinOf(UnknownTypes) - 1) : normalizeAction(payload.actions[j], j - 1).ok)
    => Failed /\ error = UnknownMessage(MinOf(UnknownTypes))

\* Every action of unknown type fails the payload, with some message.
UnknownTypeFails == Decided /\ HasActions /\ UnknownTypes # {} => Failed

\* ------------------------------------------------------------------------
\* runGamePhysicsTool: what it repairs
\* ------------------------------------------------------------------------

\* runGamePhysicsTool has called runPhysicsSimulation.
Accepted == pc \notin { "tool", "failed" }

Floor == Q(1, 10000)

AtLeastFloor(x) == IsNumber(x) /\ RLe(Floor, x)

\* Every body on the heap (of the request's world, of its spawnBody actions, of
\* every clone and of the returned world) has mass and halfSize at or above the floor.
MassAndSizeFloored ==
  \A b \in 1..Len(heap.body) :
    /\ AtLeastFloor(heap.body[b].mass)
    /\ AtLeastFloor(heap.vec[heap.body[b].halfSize].x)
    /\ AtLeastFloor(heap.vec[heap.body[b].halfSize].y)

\* The mass that a raw mass is repaired to, as the claim states it.
RepairedMass(mass) ==
  IF ~IsNumber(mass) THEN I(1)
  ELSE IF RLe(mass, I(0)) THEN Floor
  ELSE IF RLt(mass, Floor) THEN Floor
  ELSE mass

\* The component that a raw component of halfSize is repaired to: a missing one
\* becomes 0.5, then the absolute value is taken, then the floor.
RepairedHalf(c) ==
  IF ~IsNumber(c) THEN Q(1, 2)
  ELSE IF RLt(RAbs(c), Floor) THEN Floor
  ELSE RAbs(c)

RepairedHalfSize(halfSize) ==
  IF ~halfSize.obj THEN V(Q(1, 2), Q(1, 2))
  ELSE V(RepairedHalf(halfSize.x), RepairedHalf(halfSize.y))

\* The component as the claim states it for a negative one: its absolute value.
AbsoluteHalf(c) == IF IsNumber(c) /\ RLt(c, I(0)) THEN RNeg(c) ELSE RepairedHalf(c)

AbsoluteHalfSize(halfSize) ==
  IF ~halfSize.obj THEN V(Q(1, 2), Q(1, 2))
  ELSE V(AbsoluteHalf(halfSize.x), AbsoluteHalf(halfSize.y))

\* The raw bodies of the payload: of world.bodies and of the spawnBody actions.
RawBodiesOf(p) ==
  { p.world.bodies[i] : i \in 1..Len(arrayOrEmpty(p.world.bodiesIsArray, p.world.bodies)) }
    \cup { p.actions[i].body : i \in { j \in 1..Len(arrayOrEmpty(p.actionsIsArray, p.actions)) :
                                         p.actions[j].type = Str("spawnBody") } }

\* The bodies of the request: of its world and of its spawnBody actions.
RequestBodies ==
  { DerefBody(heap, heap.arr[heap.world[request.world].bodies][i]) :
      i \in 1..Len(heap.arr[heap.world[request.world].bodies]) }
    \cup { DerefBody(heap, request.actions[i].body) :
             i \in { j \in 1..Len(request.actions) : request.actions[j].type = "spawnBody" } }

\* Every raw body is passed to the stepper with its mass repaired and with its
\* halfSize as half(raw halfSize) says.
PassedRepaired(half(_)) ==
  \A raw \in RawBodiesOf(payload) :
    \E body \in RequestBodies :
      /\ body.id = trim(raw.id.s)
      /\ body.mass = RepairedMass(raw.mass)
      /\ body.halfSize = half(raw.halfSize)

\* The bodies of the payload are sound but for mass and halfSize.
OnlyMassAndSizeOdd ==
  /\ payload.obj /\ payload.world = TestWorld(payload.world.bodies)
  /\ \A raw \in RawBodiesOf(payload) : \E id \in { "a", "c" }, isStatic \in BOOLEAN :
       raw = BodyAtRest(id, raw.halfSize, raw.mass, isStatic)
  /\ Len(payload.actions) <= 1
  /\ \A i \in 1..Len(payload.actions) : payload.actions[i].type = Str("spawnBody")

\* The bodies of the returned world have the mass and halfSize they were passed with.
ReturnedAsPassed ==
  pc = "done" =>
    \A i \in 1..Len(DerefWorld(heap, result.world).bodies) :
      \E body \in RequestBodies :
        /\ body.id = DerefWorld(heap, result.world).bodies[i].id
        /\ body.mass = DerefWorld(heap, result.world).bodies[i].mass
        /\ body.halfSize = DerefWorld(heap, result.world).bodies[i].halfSize

\* No step of a call changes the mass or the halfSize of a body.
MassAndSizeKept ==
  pc # "tool" =>
    \A b \in 1..Len(heap.body) :
      /\ heap'.body[b].mass = heap.body[b].mass
      /\ heap'.vec[heap'.body[b].halfSize] = heap.vec[heap.body[b].halfSize]

\* C11 as stated: a negative component of halfSize is passed as its absolute value.
C11_NegativeBecomesAbsolute ==
  Accepted /\ OnlyMassAndSizeOdd => PassedRepaired(AbsoluteHalfSize)

\* C11: every body that runGamePhysicsTool passes to the stepper has mass and both
\* components of halfSize >= 0.0001; a missing or non-finite mass is passed as 1, a
\* mass below 0.0001 as 0.0001; a missing component of halfSize is passed as 0.5, any
\* other as its absolute value, raised to 0.0001 when that is smaller; a payload
\* that is odd only in these fields is not rejected; no step changes mass or
\* halfSize, and the returned world has them as they were passed.
C11_MassAndSizeRepaired ==
  /\ [](/\ MassAndSizeFloored
        /\ Decided /\ OnlyMassAndSizeOdd => Accepted
        /\ Accepted /\ OnlyMassAndSizeOdd => PassedRepaired(RepairedHalfSize)
        /\ ReturnedAsPassed)
  /\ [][MassAndSizeKept]_vars

\* C11 witness: the malformed body of the test (halfSize (-2, 0), mass 0) is
\* returned with halfSize (2, 0.0001) and mass 0.0001.
C11_Witness ==
  /\ pc = "done"
  /\ Len(payload.world.bodies) = 1
  /\ payload.world.bodies[1].halfSize = RawVI(-2, 0)
  /\ payload.world.bodies[1].mass = I(0)
  /\ Len(DerefWorld(heap, result.world).bodies) = 1
  /\ DerefWorld(heap, result.world).bodies[1].halfSize = V(I(2), Q(1, 10000))
  /\ DerefWorld(heap, result.world).bodies[1].mass = Q(1, 10000)

\* ------------------------------------------------------------------------
\* applyAction
\* ------------------------------------------------------------------------

\* A step of stepWorld's loop over the actions.
ActionStep == pc = "actions" /\ pc' = "actions"

\* The action of that step, with the value of its body.
CurrentAction == DerefActions(heap, << sw.actions[sw.actionIdx] >>)[1]

IdsIn(bodies) == { bodies[i].id : i \in 1..Len(bodies) }

\* The bodies that an action leaves, as the claim states it for spawnBody and
\* removeBody; no other action adds or removes a body.
BodiesAfter(bodies, action) ==
  IF action.type = "spawnBody"
  THEN IF action.body.id = "" \/ action.body.id \in IdsIn(bodies) THEN bodies
       ELSE Append(bodies, action.body)
  ELSE IF action.type = "removeBody"
  THEN SelectSeq(bodies, LAMBDA body : body.id # action.bodyId)
  ELSE bodies

IdList(bodies) == [i \in 1..Len(bodies) |-> bodies[i].id]

\* A spawnBody or removeBody changes the world to the bodies it leaves and nothing
\* else; any other action leaves the list of ids.
OneActionApplied ==
  ActionStep =>
    IF CurrentAction.type \in { "spawnBody", "removeBody" }
    THEN DerefWorld(heap', sw.world)
           = [DerefWorld(heap, sw.world) EXCEPT
                !.bodies = BodiesAfter(DerefWorld(heap, sw.world).bodies, CurrentAction)]
    ELSE IdList(DerefWorld(heap', sw.world).bodies) = IdList(DerefWorld(heap, sw.world).bodies)

\* The ids that a list of actions leaves: the rules folded over the list.
RECURSIVE IdsAfter(_, _)
IdsAfter(ids, actions) ==
  IF actions = <<>> THEN ids
  ELSE IdsAfter(
         IF Head(actions).type = "spawnBody"
         THEN IF Head(actions).body.id = "" \/ \E i \in 1..Len(ids) : ids[i] = Head(actions).body.id
              THEN ids
              ELSE Append(ids, Head(actions).body.id)
         ELSE IF Head(actions).type = "removeBody"
         THEN SelectSeq(ids, LAMBDA id : id # Head(actions).bodyId)
         ELSE ids,
         Tail(actions))

\* While the actions are applied, the ids of the world are those that the actions
\* applied so far leave of the ids the step began with.
FoldedSoFar ==
  pc = "actions" =>
    IdList(DerefWorld(heap, sw.world).bodies)
      = IdsAfter(IdList(DerefWorld(heap, sw.source).bodies),
                 DerefActions(heap, SubSeq(sw.actions, 1, sw.actionIdx - 1)))

\* The ids of the returned world are those that the request's actions leave of the
\* ids of the request's world.
FoldedAtEnd ==
  pc = "done" =>
    IdList(DerefWorld(heap, result.world).bodies)
      = IdsAfter(IdList(snapshot.bodies), DerefActions(heap, request.actions))

\* C12: the actions of a request are applied one at a time in list order, each to
\* the bodies the previous one left: spawnBody appends a copy of its body unless the
\* id is empty or present (then the world is unchanged), removeBody deletes the body
\* of that id or changes nothing, no other action adds or removes a body; the ids
\* of the world are at every moment, and in the returned world, the fold of these
\* rules over the actions applied.
C12_ActionsFold == [](FoldedSoFar /\ FoldedAtEnd) /\ [][OneActionApplied]_vars

\* C12 witness: a dynamic body a was removed and a static body a spawned after it by
\* the same request, and the returned world has the spawned one.
C12_Witness ==
  /\ pc = "done"
  /\ Len(request.actions) = 2
  /\ request.actions[1].type = "removeBody" /\ request.actions[1].bodyId = "a"
  /\ request.actions[2].type = "spawnBody"
  /\ \E i \in 1..Len(snapshot.bodies) : snapshot.bodies[i].id = "a" /\ ~snapshot.bodies[i].isStatic
  /\ \E i \in 1..Len(DerefWorld(heap, result.world).bodies) :
       /\ DerefWorld(heap, result.world).bodies[i].id = "a"
       /\ DerefWorld(heap, result.world).bodies[i].isStatic

\* A body spawned by an action is the target of a later action of the same request.
SpawnedThenTargeted ==
  /\ pc = "done"
  /\ Len(request.actions) = 2
  /\ request.actions[1].type = "spawnBody" /\ request.actions[2].type = "setVelocity"
  /\ \E i \in 1..Len(DerefWorld(heap, result.world).bodies) :
       /\ DerefWorld(heap, result.world).bodies[i].id = "d"
       /\ DerefWorld(heap, result.world).bodies[i].velocity = VI(3, 0)

\* ------------------------------------------------------------------------
\* POST: what it answers
\* ------------------------------------------------------------------------

\* Something threw: request.json() or runGamePhysicsTool.
Threw == error # ""

\* runGamePhysicsTool returned a result: a world on the heap and its events.
Returned == ~Threw /\ result.world \in 1..Len(heap.world)

\* No step was executed, no request made and nothing returned.
NothingStepped == heap = EmptyHeap /\ request = NoRequest /\ rps = NoRps /\ sw = NoSw /\ result = NoResult

\* An error leaves nothing stepped; a return is a whole result and no error.
AllOrNothing ==
  /\ pc \in { "failed", "caught" } => Threw /\ NothingStepped
  /\ pc = "done" => Returned
  /\ Threw => NothingStepped

\* A call fails only where normalization or parsing stands: never once a step began.
FailsBeforeStepping == pc' \in { "failed", "caught" } => pc \in { "post", "tool", "failed" }

\* The response: 200 and the result exactly when the tool returned, 400 and the
\* message exactly when something threw.
Answered ==
  pc = "responded" =>
    /\ http.status \in { 200, 400 }
    /\ http.status = 200 <=> Returned
    /\ http.status = 400 <=> Threw
    /\ http.status = 200 =>
         http.body = [ok |-> TRUE, world |-> DerefWorld(heap, result.world),
                      collisions |-> result.collisions]
    /\ http.status = 400 => http.body = [ok |-> FALSE, error |-> error]

\* The body is JSON text for an object without more than 100 actions whose world is
\* missing, null or no object.
WorldMissing == http.json /\ payload.obj /\ ~TooManyActions /\ ~payload.world.obj

WorldMissingAnswered ==
  pc = "responded" /\ WorldMissing =>
    http.status = 400 /\ http.body = [ok |-> FALSE, error |-> "world must be an object."]

\* C13: runGamePhysicsTool either returns a whole {world, collisions} or throws
\* before any step was executed; POST answers 200 with {ok: true, world, collisions}
\* exactly when the tool returned and 400 with {ok: false, error: <message>} exactly
\* when something threw, with "world must be an object." for a missing world.
C13_AllOrNothing ==
  /\ [](AllOrNothing /\ Answered /\ WorldMissingAnswered)
  /\ [][FailsBeforeStepping]_vars

\* C13 witness: the request of the test, { world: null }, was answered 400 with the message.
C13_Witness ==
  /\ pc = "responded"
  /\ WorldMissing
  /\ payload.actions = <<>>
  /\ http.status = 400
  /\ http.body.error = "world must be an object."

\* A request was answered 200 with a world that was stepped once.
AnsweredWithWorld ==
  /\ pc = "responded"
  /\ http.status = 200
  /\ http.body.world.tick = I(1)
  /\ Len(http.body.world.bodies) = 2


\* ------------------------------------------------------------------------
\* C14: the stepper is total on normalized input
\* ------------------------------------------------------------------------

FiniteVector(v) == IsNumber(v.x) /\ IsNumber(v.y)

FiniteEvents(collisions) ==
  \A i \in 1..Len(collisions) :
    /\ FiniteVector(collisions[i].normal)
    /\ IsNumber(collisions[i].depth)
    /\ IsNumber(collisions[i].relativeSpeed)

\* Every number of every object of the call is a number: no operation of the call
\* divided by zero, whose result every later operation would have handed on.
NoNumberLost ==
  Accepted =>
    /\ \A i \in 1..Len(heap.vec) : FiniteVector(heap.vec[i])
    /\ \A i \in 1..Len(heap.body) :
         /\ IsNumber(heap.body[i].mass)
         /\ IsNumber(heap.body[i].restitution)
         /\ IsNumber(heap.body[i].friction)
         /\ IsNumber(heap.body[i].linearDamping)
    /\ \A i \in 1..Len(heap.world) : IsNumber(heap.world[i].tick) /\ IsNumber(heap.world[i].elapsedMs)
    /\ FiniteEvents(rps.collisions) /\ FiniteEvents(sw.collisions) /\ FiniteEvents(result.collisions)

\* The inverse mass is taken of positive masses only.
MassesPositive ==
  Accepted => \A i \in 1..Len(heap.body) : RLt(I(0), heap.body[i].mass)

\* The loop of runPhysicsSimulation runs steps times, and steps is at most MAX_STEPS.
StepsWithinMax ==
  Accepted /\ pc # "idle" =>
    /\ rps.steps \in 1..MAX_STEPS
    /\ rps.stepIndex \in 0..rps.steps
    /\ pc = "done" => rps.stepIndex = rps.steps

\* An accepted request raises no error, and what is returned is a world.
NoErrorOnceAccepted ==
  /\ Accepted => error = ""
  /\ pc = "done" => result.world \in 1..Len(heap.world)

\* A pair that resolveBodyCollision moved, changed the velocity of, or recorded an event for.
PairResolved == PairStep /\ (heap' # heap \/ sw'.collisions # sw.collisions)

\* resolveBodyCollision goes on to its divisions by inverseMassTotal only with a
\* positive inverseMassTotal.
DividesByPositive ==
  PairResolved =>
    RLt(I(0), RAdd(bodyInverseMass(heap, sw.orderedBodies[sw.index]),
                   bodyInverseMass(heap, sw.orderedBodies[sw.inner])))

\* Where the call stands within one step of the world.
Phase ==
  CASE pc = "idle" -> 0
    [] pc = "loop" -> 1
    [] pc = "actions" -> 2
    [] pc = "bounds" -> 3
    [] pc = "pairs" -> 4
    [] OTHER -> 5

\* An accepted call that has not returned stands at the call or at one of the loops,
\* with the loop's counter at most one past its bound: the loop goes on or is left.
NeverStuck ==
  Accepted /\ pc # "done" =>
    /\ pc \in { "idle", "loop", "actions", "bounds", "pairs" }
    /\ pc = "actions" => sw.actionIdx \in 1..Len(sw.actions) + 1
    /\ pc = "bounds" => sw.bodyIdx \in 1..Len(heap.arr[heap.world[sw.world].bodies]) + 1
    /\ pc = "pairs" => sw.index \in 1..Len(sw.orderedBodies) + 1

\* Every step of an accepted call brings it nearer to its return: a loop counter
\* goes up towards its bound, or the call moves on to the next phase of the step,
\* to the next step of the world, or to its return.
Progress ==
  Accepted =>
    /\ Accepted'
    /\ \/ pc' = pc /\ pc = "actions" /\ sw'.actionIdx = sw.actionIdx + 1
              /\ sw.actionIdx <= Len(sw.actions) /\ sw'.actions = sw.actions
       \/ pc' = pc /\ pc = "bounds" /\ sw'.bodyIdx = sw.bodyIdx + 1
              /\ sw.bodyIdx <= Len(heap.arr[heap.world[sw.world].bodies])
              /\ heap'.arr = heap.arr
       \/ pc' = pc /\ pc = "pairs" /\ sw'.orderedBodies = sw.orderedBodies
              /\ sw.index <= Len(sw.orderedBodies)
              /\ \/ sw'.index > sw.index
                 \/ sw'.index = sw.index /\ sw'.inner > sw.inner
                      /\ sw'.inner <= Len(sw.orderedBodies) + 1
       \/ pc = "pairs" /\ pc' = "loop" /\ rps'.stepIndex = rps.stepIndex + 1
              /\ rps'.steps = rps.steps
       \/ pc # "pairs" /\ Phase' > Phase /\ (pc # "idle" => rps' = rps)

\* C14: for every request that normalization accepts, runPhysicsSimulation ends
\* after its steps (at most MAX_STEPS) and returns a world without an error (it can
\* always take its next step, and every step brings it nearer to its return), and
\* no operation divides by zero: every number stays a number, masses are positive,
\* and a pair is resolved only when the sum of its inverse masses is positive.
C14_StepperTotal ==
  /\ [](NoNumberLost /\ MassesPositive /\ StepsWithinMax /\ NoErrorOnceAccepted /\ NeverStuck)
  /\ [][DividesByPositive /\ Progress]_vars

\* Bodies "a" and "b" met head on (the tangent of their relative velocity has no
\* length) in a call of two steps that returned.
C14_Witness ==
  /\ pc = "done"
  /\ error = ""
  /\ rps.steps = 2
  /\ \E i \in 1..Len(result.collisions) :
       /\ result.collisions[i].aId = "a"
       /\ result.collisions[i].bId = "b"
       /\ result.collisions[i].normal = VI(1, 0)

\* A call of MAX_STEPS steps returned, asked for more.
StepsCapped == pc = "done" /\ rps.steps = MAX_STEPS /\ RLt(I(MAX_STEPS), payload.steps)

\* ------------------------------------------------------------------------
\* C15: step size and step count of a call
\* ------------------------------------------------------------------------

\* The call was made of runPhysicsSimulation itself, not through the tool.
Direct == ~payload.obj

\* What the caller asked for: the tool reads what is no finite number as missing.
AskedFor(direct, raw) == IF Direct THEN direct ELSE IF IsNumber(raw) THEN raw ELSE Undefined

\* The step size the contract gives a call that asks for dtMs.
StepSizeFor(dtMs) ==
  IF dtMs = Undefined THEN Q(16667, 1000)
  ELSE IF RLt(dtMs, I(1)) THEN I(1)
  ELSE IF RLt(I(100), dtMs) THEN I(100)
  ELSE dtMs

\* The step count the contract gives a call that asks for steps: the nearest whole
\* number within the range.
StepCountFor(steps) ==
  IF steps = Undefined THEN 1
  ELSE IF RLt(steps, I(1)) THEN 1
  ELSE IF RLt(I(32), steps) THEN 32
  ELSE (2 * steps.n + steps.d) \div (2 * steps.d)

\* The call uses the step size of the contract, which is within [1, 100].
StepSizeInRange ==
  Called =>
    /\ rps.dtMs = StepSizeFor(AskedFor(request.dtMs, payload.dtMs))
    /\ RLe(I(1), rps.dtMs) /\ RLe(rps.dtMs, I(100))
    /\ pc \in { "actions", "bounds", "pairs" } => RMul(sw.dtSeconds, I(1000)) = rps.dtMs

\* The call runs the step count of the contract, which is a whole number within [1, 32].
StepCountInRange ==
  Called =>
    /\ rps.steps = StepCountFor(AskedFor(request.steps, payload.steps))
    /\ rps.steps \in 1..32
    /\ rps.stepIndex <= rps.steps
    /\ pc = "done" => rps.stepIndex = rps.steps

\* A step of the world ends: the world's time is moved on by the step size.
StepEnds == pc = "pairs" /\ pc' = "loop"

EachStepBySize ==
  StepEnds =>
    /\ rps'.stepIndex = rps.stepIndex + 1
    /\ heap'.world[rps'.world].elapsedMs =
         RAdd(heap.world[rps.world].elapsedMs, StepSizeFor(AskedFor(request.dtMs, payload.dtMs)))

RaisedThroughTool ==
  /\ pc = "done"
  /\ ~Direct
  /\ payload.dtMs = I(0)
  /\ payload.steps = Undefined
  /\ rps.stepIndex = 1
  /\ rps.dtMs = I(1)

\* A call made directly without dtMs and steps returned after one step of 16.667 ms.
DefaultsUsed ==
  /\ pc = "done"
  /\ Direct
  /\ request.dtMs = Undefined
  /\ request.steps = Undefined
  /\ rps.stepIndex = 1
  /\ rps.dtMs = Q(16667, 1000)

\* ------------------------------------------------------------------------
\* C16: the world's defaults of restitution, friction and linearDamping
\* ------------------------------------------------------------------------

\* A field the caller gave: the tool reads what is no finite number as missing.
Given(x) == IF Direct THEN x # Undefined ELSE IsNumber(x)

\* The world as the caller gave it.
CallerWorld == IF Direct THEN snapshot ELSE payload.world

\* The id of a body as the caller gave it.
CallerId(body) == IF Direct THEN body.id ELSE trim(body.id.s)

\* The value the contract gives a body for a field: its own, else the world's
\* default, else the constant, clamped to [0, 1].
ValueFor(own, default, constant) ==
  clamp(IF Given(own) THEN own ELSE IF Given(default) THEN default ELSE constant, I(0), I(1))

\* The call spawns no body: the bodies of the world are those the caller's world had.
NoneSpawned == \A k \in 1..Len(request.actions) : request.actions[k].type # "spawnBody"

\* C16 (as stated): through either entry point, the restitution, friction and
\* linearDamping a step uses for a body of the caller's world are the body's own
\* or, for a body that gives none, the world's defaultRestitution, defaultFriction
\* and defaultLinearDamping, clamped to [0, 1].
C16_WorldDefaultsUsed ==
  Called /\ pc # "done" /\ NoneSpawned =>
    \A i \in 1..Len(heap.arr[heap.world[CurrentWorld].bodies]) :
      \A j \in 1..Len(CallerWorld.bodies) :
        CallerId(CallerWorld.bodies[j]) = heap.body[heap.arr[heap.world[CurrentWorld].bodies][i]].id =>
          /\ getBodyRestitution(heap, CurrentWorld, heap.arr[heap.world[CurrentWorld].bodies][i])
               = ValueFor(CallerWorld.bodies[j].restitution, CallerWorld.defaultRestitution, Q(1, 4))
          /\ getBodyFriction(heap, CurrentWorld, heap.arr[heap.world[CurrentWorld].bodies][i])
               = ValueFor(CallerWorld.bodies[j].friction, CallerWorld.defaultFriction, Q(1, 5))
          /\ getBodyLinearDamping(heap, CurrentWorld, heap.arr[heap.world[CurrentWorld].bodies][i])
               = ValueFor(CallerWorld.bodies[j].linearDamping, CallerWorld.defaultLinearDamping,
                          Q(1, 50))

\* The same of the calls made of runPhysicsSimulation itself.
DirectDefaultsUsed == Direct => C16_WorldDefaultsUsed

\* The same of the bodies that give their own values, or whose world gives no default.
OwnOrConstantUsed ==
  (\A j \in 1..Len(CallerWorld.bodies) :
     /\ Given(CallerWorld.bodies[j].restitution) \/ ~Given(CallerWorld.defaultRestitution)
     /\ Given(CallerWorld.bodies[j].friction) \/ ~Given(CallerWorld.defaultFriction)
     /\ Given(CallerWorld.bodies[j].linearDamping) \/ ~Given(CallerWorld.defaultLinearDamping))
    => C16_WorldDefaultsUsed

\* Through the tool, a body that gives no restitution in a world with a default
\* restitution of 1 bounced off the right wall with the constant 0.25.
BouncedByConstant ==
  /\ pc = "done"
  /\ ~Direct
  /\ Len(payload.world.bodies) = 1
  /\ payload.world.bodies[1].restitution = Undefined
  /\ payload.world.defaultRestitution = I(1)
  /\ Len(result.collisions) = 1
  /\ result.collisions[1].bId = WORLD_ID
  /\ LET after == DerefWorld(heap, result.world).bodies[1].velocity
         before == DerefWorld(heap, request.world).bodies[1].velocity
     IN  /\ RLt(after.x, I(0))
         /\ RLt(RMul(I(-1), after.x), RMul(Q(1, 2), before.x))

\* ------------------------------------------------------------------------
\* C17: the sizes of a call of runGamePhysicsTool
\* ------------------------------------------------------------------------

\* The number of bodies of the world the stepper holds.
BodiesInWorld == Len(heap.arr[heap.world[CurrentWorld].bodies])

\* The spawnBody actions of the request.
SpawnsAsked == Cardinality({ k \in 1..Len(request.actions) : request.actions[k].type = "spawnBody" })

\* C17 (as stated): at every point of a call of runGamePhysicsTool the stepper's world
\* has at most 300 bodies, the action list at most 100 actions, and the call has run
\* at most 32 steps.
C17_CapsBoundWork ==
  Called =>
    /\ BodiesInWorld <= 300
    /\ Len(rps.actions) <= 100
    /\ pc \in { "actions", "bounds", "pairs" } => Len(sw.actions) <= 100
    /\ rps.stepIndex <= 32

\* What holds of the bodies: at most 300 and one for every spawnBody action.
BodiesWithinCapAndSpawns ==
  Called =>
    /\ Len(heap.arr[heap.world[request.world].bodies]) <= 300
    /\ BodiesInWorld <= 300 + SpawnsAsked

\* The caps on the actions and on the steps hold.
ActionsAndStepsCapped ==
  Called =>
    /\ Len(rps.actions) <= 100
    /\ pc \in { "actions", "bounds", "pairs" } => Len(sw.actions) <= 100
    /\ rps.stepIndex <= 32

\* ------------------------------------------------------------------------
\* C18: targeted actions without a dynamic target
\* ------------------------------------------------------------------------

TargetedTypes == { "applyImpulse", "applyForce", "setVelocity", "teleport" }

\* The bodies of the stepped world that have the id.
BodiesNamed(H, id) ==
  { i \in 1..Len(DerefWorld(H, sw.world).bodies) : DerefWorld(H, sw.world).bodies[i].id = id }

NamesNoBody(action) == BodiesNamed(heap, action.bodyId) = {}

NamesStaticBody(action) ==
  \E i \in BodiesNamed(heap, action.bodyId) : DerefWorld(heap, sw.world).bodies[i].isStatic

\* C18: applying an applyImpulse, applyForce, setVelocity or teleport whose bodyId
\* names no body of the world, or a static body, changes nothing (not the world,
\* not any other object, not the events) and raises no error: the call goes on to
\* the next action.
C18_UntargetedIgnored ==
  [][ActionStep /\ CurrentAction.type \in TargetedTypes
       /\ (NamesNoBody(CurrentAction) \/ NamesStaticBody(CurrentAction))
     => /\ DerefWorld(heap', sw.world) = DerefWorld(heap, sw.world)
        /\ heap' = heap
        /\ sw' = [sw EXCEPT !.actionIdx = @ + 1]
        /\ error' = "" /\ result' = result /\ rps' = rps]_vars

\* The action before the one at hand.
LastAction == DerefActions(heap, << sw.actions[sw.actionIdx - 1] >>)[1]

\* C18 witness: a teleport of the static body b was applied, and the world is as
\* the step began with.
C18_Witness ==
  /\ pc = "actions"
  /\ sw.actionIdx = 2
  /\ LastAction.type = "teleport"
  /\ LastAction.bodyId = "b"
  /\ \E i \in BodiesNamed(heap, "b") : DerefWorld(heap, sw.world).bodies[i].isStatic
  /\ DerefWorld(heap, sw.world) = DerefWorld(heap, sw.source)

\* An applyImpulse of a body that the world has not was applied.
AbsentTargetIgnored ==
  /\ pc = "actions"
  /\ sw.actionIdx = 2
  /\ LastAction.type = "applyImpulse"
  /\ BodiesNamed(heap, LastAction.bodyId) = {}
  /\ DerefWorld(heap, sw.world).bodies # <<>>
  /\ DerefWorld(heap, sw.world) = DerefWorld(heap, sw.source)

\* The four types, each ignored for a static target, and each for an absent one.
IgnoredOfType(type, static) ==
  /\ pc = "actions"
  /\ sw.actionIdx > 1
  /\ LastAction.type = type
  /\ IF static
     THEN \E i \in BodiesNamed(heap, LastAction.bodyId) : DerefWorld(heap, sw.world).bodies[i].isStatic
     ELSE BodiesNamed(heap, LastAction.bodyId) = {}

\* ------------------------------------------------------------------------
\* C19: normalization is repeatable and idempotent
\* ------------------------------------------------------------------------

\* A normalized request, read as a payload: the same values, as normalizeRequest
\* reads them.  A field that the object has not is read as undefined.
AsRawVector(v) == RawVec(v.x, v.y)

AsRawBody(body) ==
  RawBody(Str(body.id), AsRawVector(body.position), AsRawVector(body.velocity),
          AsRawVector(body.halfSize), body.mass, body.isStatic, body.restitution, body.friction,
          body.linearDamping, body.tag)

AsRawAction(action) ==
  IF action.type = "spawnBody"
  THEN RawAction(Str(action.type), NoStr, NotAVector, AsRawBody(action.body))
  ELSE IF action.type = "removeBody"
  THEN RawAction(Str(action.type), Str(action.bodyId), NotAVector, NotABody)
  ELSE RawAction(Str(action.type), Str(action.bodyId), AsRawVector(action.vector), NotABody)

AsRawWorld(world) ==
  RawWorld([i \in 1..Len(world.bodies) |-> AsRawBody(world.bodies[i])],
           RawBounds(AsRawVector(world.bounds.min), AsRawVector(world.bounds.max)),
           world.tick, world.elapsedMs, AsRawVector(world.gravity), world.defaultRestitution,
           world.defaultFriction, world.defaultLinearDamping)

AsPayload(r) ==
  Payload(AsRawWorld(r.world), [i \in 1..Len(r.actions) |-> AsRawAction(r.actions[i])],
          r.dtMs, r.steps)

\* The request that the call was made with, by value.
RequestValue ==
  [world |-> DerefWorld(heap, request.world), actions |-> DerefActions(heap, request.actions),
   dtMs |-> request.dtMs, steps |-> request.steps]

\* The request the stepper is called with is the normalized payload, and
\* normalizing it again gives it again.
NormalizedOnce ==
  pc = "idle" /\ ~Direct =>
    /\ normalizeRequest(payload).ok
    /\ RequestValue = normalizeRequest(payload).value
    /\ normalizeRequest(AsPayload(RequestValue)) = Ok(RequestValue)

\* The payloads whose result the function is computed of: those of few bodies.
FewBodies == Len(arrayOrEmpty(payload.world.bodiesIsArray, payload.world.bodies)) <= MaxRawBodies

\* What a call returns is what the function of the payload gives: every call of the
\* same payload returns the same, and so does a call of the normalized request.
SameResultAgain ==
  pc = "done" /\ ~Direct /\ FewBodies =>
    /\ [world |-> DerefWorld(heap, result.world), collisions |-> result.collisions]
         = runGamePhysicsTool(payload)
    /\ runGamePhysicsTool(AsPayload(RequestValue)) = runGamePhysicsTool(payload)

\* No step of a call changes the payload, nor the request once it is made.
PayloadKept == payload' = payload /\ (pc # "tool" => request' = request /\ RequestValue' = RequestValue)

TrimmedOnce ==
  /\ pc = "idle"
  /\ ~Direct
  /\ \E i \in 1..Len(payload.world.bodies) : payload.world.bodies[i].id = Str(" a ")

ActionsNormalizedOnce == pc = "idle" /\ ~Direct /\ Len(request.actions) = 2

\* ------------------------------------------------------------------------
\* C20: targeted actions on a dynamic body
\* ------------------------------------------------------------------------

\* The place in world.bodies of the one dynamic body that the action names, or 0.
TargetOf(action) ==
  IF Cardinality(BodiesNamed(heap, action.bodyId)) = 1
       /\ \A i \in BodiesNamed(heap, action.bodyId) : ~DerefWorld(heap, sw.world).bodies[i].isStatic
  THEN CHOOSE i \in BodiesNamed(heap, action.bodyId) : TRUE
  ELSE 0

\* The body an action leaves of its target, as the contract states it; dtSeconds is
\* the step size in seconds.
TargetAfter(body, action, dtSeconds) ==
  CASE action.type = "applyImpulse" ->
         [body EXCEPT !.velocity = V(RAdd(@.x, RDiv(action.vector.x, body.mass)),
                                     RAdd(@.y, RDiv(action.vector.y, body.mass)))]
    [] action.type = "applyForce" ->
         [body EXCEPT !.velocity = V(RAdd(@.x, RMul(RDiv(action.vector.x, body.mass), dtSeconds)),
                                     RAdd(@.y, RMul(RDiv(action.vector.y, body.mass), dtSeconds)))]
    [] action.type = "setVelocity" -> [body EXCEPT !.velocity = action.vector]
    [] action.type = "teleport" -> [body EXCEPT !.position = action.vector]

\* C20: applied to a dynamic body of the world, before integration, applyImpulse
\* adds impulse / mass to its velocity, applyForce adds force / mass * dtSeconds,
\* setVelocity replaces its velocity and teleport its position, each leaving the
\* body's other fields; the other bodies, the fields of the world, the events, the
\* world the step began with and the request's world stay as they were.
C20_TargetedEffect ==
  [][ActionStep /\ CurrentAction.type \in TargetedTypes /\ TargetOf(CurrentAction) # 0
     => /\ DerefWorld(heap', sw.world)
             = [DerefWorld(heap, sw.world) EXCEPT
                  !.bodies[TargetOf(CurrentAction)] =
                     TargetAfter(@, CurrentAction, RDiv(StepSizeFor(request.dtMs), I(1000)))]
        /\ DerefWorld(heap', sw.source) = DerefWorld(heap, sw.source)
        /\ DerefWorld(heap', request.world) = DerefWorld(heap, request.world)
        /\ sw' = [sw EXCEPT !.actionIdx = @ + 1]
        /\ rps' = rps /\ result' = result /\ error' = ""]_vars

\* The dynamic body the last action named, in the stepped world and in the world
\* the step began with.
Targeted(H, w) ==
  { i \in 1..Len(DerefWorld(H, w).bodies) :
      /\ DerefWorld(H, w).bodies[i].id = LastAction.bodyId
      /\ ~DerefWorld(H, w).bodies[i].isStatic }

\* C20 witness: the first action of a step was an applyImpulse of (3, -6) to body c
\* of mass 3, whose velocity is now (1, -2) more than the step began with.
C20_Witness ==
  /\ pc = "actions"
  /\ sw.actionIdx = 2
  /\ LastAction.type = "applyImpulse"
  /\ LastAction.vector = VI(3, -6)
  /\ \E i \in Targeted(heap, sw.world) :
       /\ DerefWorld(heap, sw.world).bodies[i].mass = I(3)
       /\ DerefWorld(heap, sw.world).bodies[i].velocity
            = add(DerefWorld(heap, sw.source).bodies[i].velocity, VI(1, -2))

\* The first action of a step was applied to a dynamic body and changed it.
AppliedOfType(type) ==
  /\ pc = "actions"
  /\ sw.actionIdx = 2
  /\ LastAction.type = type
  /\ \E i \in Targeted(heap, sw.world) :
       DerefWorld(heap, sw.world).bodies[i] # DerefWorld(heap, sw.source).bodies[i]

\* ------------------------------------------------------------------------
\* resolveBodyCollision: a pair that is not approaching
\* ------------------------------------------------------------------------

\* The pair the pair loop is at overlaps on both axes.
PairOverlaps(a, b) ==
  /\ RLt(I(0), overlapOf(heap.vec[heap.body[a].halfSize].x, heap.vec[heap.body[b].halfSize].x,
                         deltaOf(heap, a, b).x))
  /\ RLt(I(0), overlapOf(heap.vec[heap.body[a].halfSize].y, heap.vec[heap.body[b].halfSize].y,
                         deltaOf(heap, a, b).y))

\* The normal the code chooses for the pair the pair loop is at, and the relative
\* velocity of the pair along it.
PairNormal(a, b) ==
  normalOf(deltaOf(heap, a, b),
           overlapOf(heap.vec[heap.body[a].halfSize].x, heap.vec[heap.body[b].halfSize].x,
                     deltaOf(heap, a, b).x),
           overlapOf(heap.vec[heap.body[a].halfSize].y, heap.vec[heap.body[b].halfSize].y,
                     deltaOf(heap, a, b).y))

PairDepth(a, b) ==
  depthOf(overlapOf(heap.vec[heap.body[a].halfSize].x, heap.vec[heap.body[b].halfSize].x,
                    deltaOf(heap, a, b).x),
          overlapOf(heap.vec[heap.body[a].halfSize].y, heap.vec[heap.body[b].halfSize].y,
                    deltaOf(heap, a, b).y))

AlongNormal(a, b) == dot(relativeVelocityOf(heap, a, b), PairNormal(a, b))

\* The step leaves the velocities of both bodies of the pair as they were.
VelocitiesKept(a, b) ==
  /\ heap'.vec[heap'.body[a].velocity] = heap.vec[heap.body[a].velocity]
  /\ heap'.vec[heap'.body[b].velocity] = heap.vec[heap.body[b].velocity]

\* What a step of the pair loop does to an overlapping pair that is not approaching
\* along the normal; atRest is whether a pair with no relative velocity along the
\* normal is expected to be left without an event, as a pair moving apart is.
NotApproaching(atRest) ==
  PairStep =>
    LET a == sw.orderedBodies[sw.index]
        b == sw.orderedBodies[sw.inner]
    IN  (PairOverlaps(a, b) /\ RLe(I(0), AlongNormal(a, b))) =>
          /\ VelocitiesKept(a, b)
          /\ IF atRest \/ RLt(I(0), AlongNormal(a, b))
             THEN sw'.collisions = sw.collisions
             ELSE /\ OneEventFor(a, b, PairNormal(a, b), PairDepth(a, b))
                  /\ sw'.collisions[Len(sw'.collisions)].relativeSpeed = I(0)

\* C21 as stated: an overlapping pair whose relative velocity along the normal is
\* >= 0, exactly 0 included, gets no impulse on either velocity and no event in
\* that step.
C21_NoEventAtRest == [][NotApproaching(TRUE)]_vars

\* C21, amended: an overlapping pair whose relative velocity along the normal is > 0
\* gets no impulse on either velocity and no event in that step; a pair whose
\* relative velocity along the normal is exactly 0 keeps both velocities too, but
\* one event is recorded for it, with relativeSpeed 0.
C21_SeparatingPairUntouched == [][NotApproaching(FALSE)]_vars

\* The pair loop is at an overlapping pair.
AtOverlappingPair ==
  /\ pc = "pairs"
  /\ sw.index <= Len(sw.orderedBodies)
  /\ PairOverlaps(sw.orderedBodies[sw.index], sw.orderedBodies[sw.inner])

\* The pair loop is at an overlapping pair that is moving apart along the normal.
PairMovingApart ==
  /\ AtOverlappingPair
  /\ RLt(I(0), AlongNormal(sw.orderedBodies[sw.index], sw.orderedBodies[sw.inner]))

\* The pair loop is at an overlapping pair with no relative velocity along the normal.
PairAtRest ==
  /\ AtOverlappingPair
  /\ AlongNormal(sw.orderedBodies[sw.index], sw.orderedBodies[sw.inner]) = I(0)

\* The body of the returned world with the id.
Final(id) ==
  LET bodies == DerefWorld(heap, result.world).bodies
  IN  bodies[CHOOSE i \in 1..Len(bodies) : bodies[i].id = id]

\* A call of one step and no actions on two bodies has returned.
OneStepOfTwo(first, second) ==
  /\ pc = "done"
  /\ rps.steps = 1
  /\ Len(request.actions) = 0
  /\ Len(snapshot.bodies) = 2
  /\ snapshot.bodies[1] = first
  /\ snapshot.bodies[2] = second
  /\ snapshot.gravity = VI(0, 0)

\* C21 witness: body c, at (7, 5) and moving right, away from the static body b of
\* half size (2, 2) at (5, 5) that it overlaps, has been pushed out of b to x = 8 with
\* the velocity integration gave it, and the call has returned no event.
C21_Witness ==
  /\ OneStepOfTwo(Body("b", VI(5, 5), VI(0, 0), VI(2, 2), I(1), TRUE, Undefined, Undefined, Undefined),
                  Body("c", VI(7, 5), VI(10, -5), VI(1, 1), I(3), FALSE, Q(1, 2), Q(1, 4), Q(1, 2)))
  /\ Final("c").position.x = I(8)
  /\ Final("c").velocity = V(Q(99, 10), Q(-99, 20))
  /\ result.collisions = << >>

\* Body b, moving left along the top of the static body c that it overlaps, has been
\* pushed up out of c with its velocity kept, and the call has returned one event for
\* the pair, of relativeSpeed 0.
RestingPairRecorded ==
  /\ OneStepOfTwo(Body("b", VI(6, 5), VI(-10, 0), VI(1, 1), I(1), FALSE, I(1), I(0), I(0)),
                  Body("c", VI(6, 6), VI(3, 0), VI(1, 1), I(1), TRUE, I(1), I(1), I(0)))
  /\ Final("b").position = V(Q(29, 5), I(4))
  /\ Final("b").velocity = VI(-10, 0)
  /\ Len(result.collisions) = 1
  /\ result.collisions[1] = Event("b", "c", VI(0, 1), I(1), I(0))

\* ------------------------------------------------------------------------
\* resolveWorldCollision: the relativeSpeed of a boundary event
\* ------------------------------------------------------------------------

\* Every event of the side of this normal has this relativeSpeed.
SpeedOnSide(events, normal, speed) ==
  \A n \in 1..Len(events) : events[n].normal = normal => events[n].relativeSpeed = speed

\* The relativeSpeed of the events of the four sides, given the velocity the body has
\* when the boundary step begins (v0) and after the left, right, top and bottom side
\* have been resolved (v1 .. v4): the component along the side's axis after the side
\* has been resolved (reflected) or before.
SpeedsOfSides(events, reflected, v0, v1, v2, v3, v4) ==
  /\ SpeedOnSide(events, VI(1, 0), RAbs(IF reflected THEN v1.x ELSE v0.x))
  /\ SpeedOnSide(events, VI(-1, 0), RAbs(IF reflected THEN v2.x ELSE v1.x))
  /\ SpeedOnSide(events, VI(0, 1), RAbs(IF reflected THEN v3.y ELSE v2.y))
  /\ SpeedOnSide(events, VI(0, -1), RAbs(IF reflected THEN v4.y ELSE v3.y))

\* The relativeSpeed of the events that a step of the boundary loop records for a
\* dynamic body.
WorldEventSpeeds(reflected) ==
  BoundsStep =>
    LET b == heap.arr[heap.world[sw.world].bodies][sw.bodyIdx]
        before == DerefBody(heap, b)
        bounds == DerefWorld(heap, sw.world).bounds
        e == getBodyRestitution(heap, sw.world, b)
        f == getBodyFriction(heap, sw.world, b)
        events == SubSeq(sw'.collisions, Len(sw.collisions) + 1, Len(sw'.collisions))
    IN  ~before.isStatic =>
          SpeedsOfSides(events, reflected, before.velocity,
            AfterLeft(before.velocity, before, bounds, e, f),
            AfterRight(AfterLeft(before.velocity, before, bounds, e, f), before, bounds, e, f),
            AfterTop(AfterRight(AfterLeft(before.velocity, before, bounds, e, f),
                                before, bounds, e, f), before, bounds, e, f),
            ReflectedVelocity(before, bounds, e, f))

\* C22: the relativeSpeed of a boundary event is the absolute value of the body's
\* velocity component along the impact axis as it was before the reflection was
\* applied, whatever the restitution in [0, 1].
C22_SpeedBeforeReflection == [][WorldEventSpeeds(FALSE)]_vars

\* The relativeSpeed of a boundary event is the absolute value of the body's velocity
\* component along the impact axis as the side leaves it: after the reflection, if
\* there was one.
SpeedAfterReflection == [][WorldEventSpeeds(TRUE)]_vars

\* Body b of restitution 1/2 has hit the left wall at speed 10 and the top wall at
\* speed 15, and the call has returned the two events with relativeSpeed 5 and 15/2.
ReboundSpeedReported ==
  /\ pc = "done"
  /\ rps.steps = 1
  /\ Len(request.actions) = 0
  /\ snapshot.gravity = VI(0, 0)
  /\ snapshot.bodies
       = << Body("b", VI(1, 1), VI(-10, -20), VI(1, 1), I(1), FALSE, Q(1, 2), Q(1, 4), I(0)) >>
  /\ result.collisions = << Event("b", WORLD_ID, VI(1, 0), Q(1, 5), I(5)),
                            Event("b", WORLD_ID, VI(0, 1), Q(2, 5), Q(15, 2)) >>

\* ------------------------------------------------------------------------
\* resolveBodyCollision: the collision normal
\* ------------------------------------------------------------------------

\* The overlaps of a pair on the two axes.
OverlapX(a, b) ==
  overlapOf(heap.vec[heap.body[a].halfSize].x, heap.vec[heap.body[b].halfSize].x,
            deltaOf(heap, a, b).x)

OverlapY(a, b) ==
  overlapOf(heap.vec[heap.body[a].halfSize].y, heap.vec[heap.body[b].halfSize].y,
            deltaOf(heap, a, b).y)

\* The pair loop is at an overlapping pair whose overlaps on the two axes are equal.
AtTie ==
  /\ AtOverlappingPair
  /\ OverlapX(sw.orderedBodies[sw.index], sw.orderedBodies[sw.inner])
       = OverlapY(sw.orderedBodies[sw.index], sw.orderedBodies[sw.inner])

\* The unit vector of an axis that points from body A toward body B, whose position
\* is delta away from A's: +1 when delta is 0 on the axis.
Toward(delta, axis) ==
  IF axis = "x" THEN VI(IF RLt(delta.x, I(0)) THEN -1 ELSE 1, 0)
  ELSE VI(0, IF RLt(delta.y, I(0)) THEN -1 ELSE 1)

\* The axis of the smaller overlap, and tie when the two overlaps are equal.
SmallerAxis(overlapX, overlapY, tie) ==
  IF RLt(overlapX, overlapY) THEN "x"
  ELSE IF RLt(overlapY, overlapX) THEN "y"
  ELSE tie

\* What a step of the pair loop on an overlapping pair shows of the normal: the two
\* bodies are moved apart along it by the depth, and the event of the pair, if the
\* step records one, carries it.
NormalChosen(tie) ==
  PairStep =>
    LET a == sw.orderedBodies[sw.index]
        b == sw.orderedBodies[sw.inner]
        n == Toward(deltaOf(heap, a, b), SmallerAxis(OverlapX(a, b), OverlapY(a, b), tie))
    IN  PairOverlaps(a, b) =>
          /\ deltaOf(heap', a, b)
               = add(deltaOf(heap, a, b), scale(n, RMin(OverlapX(a, b), OverlapY(a, b))))
          /\ sw'.collisions # sw.collisions => sw'.collisions[Len(sw'.collisions)].normal = n

\* C23 as stated: the normal axis of an overlapping pair is the axis of the smaller
\* overlap, the x axis when the two overlaps are equal, and the normal points from
\* body A toward body B on that axis, +1 when delta is 0.
C23_TieChoosesX == [][NormalChosen("x")]_vars

\* C23, amended: the normal axis of an overlapping pair is the x axis when the x
\* overlap is smaller than the y overlap and the y axis otherwise, so the y axis when
\* the two overlaps are equal; the normal points from body A toward body B on that
\* axis, +1 when delta is 0.
C23_NormalAxis == [][NormalChosen("y")]_vars

\* C23 witness: body a has come to lie on the centre of the static body b, with equal
\* overlaps of 3 and delta (0, 0); the step has moved it out of b along the y axis,
\* to (5, 2), and the call has returned the event of the pair with normal (0, 1).
C23_Witness ==
  /\ OneStepOfTwo(Body("a", VI(4, 5), VI(10, 0), VI(1, 1), I(1), FALSE, I(1), I(0), I(0)),
                  Body("b", VI(5, 5), VI(0, 0), VI(2, 2), I(1), TRUE, Undefined, Undefined, Undefined))
  /\ request.dtMs = I(100)
  /\ Final("a").position = VI(5, 2)
  /\ result.collisions = << Event("a", "b", VI(0, 1), I(3), I(0)) >>

\* A call has returned the event of a pair whose normal is on the x axis.
NormalOnX(sign) ==
  /\ pc = "done"
  /\ \E n \in 1..Len(result.collisions) :
       /\ result.collisions[n].bId # WORLD_ID
       /\ result.collisions[n].normal = VI(sign, 0)

\* A call has returned the event of a pair whose normal is (0, -1): body B is above
\* body A.
NormalUpward ==
  /\ pc = "done"
  /\ \E n \in 1..Len(result.collisions) :
       /\ result.collisions[n].bId # WORLD_ID
       /\ result.collisions[n].normal = VI(0, -1)

\* ------------------------------------------------------------------------
\* resolveBodyCollision: the positional correction
\* ------------------------------------------------------------------------

\* The share of the depth that a body of inverse mass own takes, other being the
\* inverse mass of the body it overlaps.
ShareOf(own, other) == RDiv(own, RAdd(own, other))

\* What a step of the pair loop does to the positions of an overlapping pair,
\* approaching or not.
PositionalCorrection ==
  PairStep =>
    LET a == sw.orderedBodies[sw.index]
        b == sw.orderedBodies[sw.inner]
        A == DerefBody(heap, a)
        B == DerefBody(heap, b)
        n == PairNormal(a, b)
        depth == PairDepth(a, b)
    IN  PairOverlaps(a, b) =>
          /\ DerefBody(heap', a).position
               = subtract(A.position,
                          scale(n, RMul(depth, ShareOf(InverseMass(A), InverseMass(B)))))
          /\ DerefBody(heap', b).position
               = add(B.position, scale(n, RMul(depth, ShareOf(InverseMass(B), InverseMass(A)))))
          /\ A.isStatic => /\ DerefBody(heap', a).position = A.position
                           /\ DerefBody(heap', b).position = add(B.position, scale(n, depth))
          /\ B.isStatic => /\ DerefBody(heap', b).position = B.position
                           /\ DerefBody(heap', a).position = subtract(A.position, scale(n, depth))
          /\ IF n.y = I(0)
             THEN overlapOf(A.halfSize.x, B.halfSize.x, deltaOf(heap', a, b).x) = I(0)
             ELSE overlapOf(A.halfSize.y, B.halfSize.y, deltaOf(heap', a, b).y) = I(0)

\* C24: the positional correction of an overlapping pair moves A by
\* -n * depth * invMassA / (invMassA + invMassB) and B by
\* +n * depth * invMassB / (invMassA + invMassB); a static body is not moved and a
\* dynamic body that overlaps a static one is moved by the whole depth; right after
\* the correction the overlap of the pair along the normal axis is zero; and the
\* correction is applied whether or not the pair is approaching.
C24_PositionalCorrection == [][PositionalCorrection]_vars

\* C24 witness: body b of mass 1 and body c of mass 3, which overlap by 301/500 on
\* the x axis after integration and are moving apart, have been moved apart by 3/4
\* and 1/4 of it and now touch; the call has returned no event.
C24_Witness ==
  /\ OneStepOfTwo(Body("b", VI(6, 5), VI(-10, 0), VI(1, 1), I(1), FALSE, I(1), I(0), I(0)),
                  Body("c", VI(7, 5), VI(10, -5), VI(1, 1), I(3), FALSE, Q(1, 2), Q(1, 4), Q(1, 2)))
  /\ Final("b").position = V(RSub(Q(29, 5), RMul(Q(3, 4), Q(301, 500))), I(5))
  /\ Final("c").position.x = RAdd(Q(3599, 500), RMul(Q(1, 4), Q(301, 500)))
  /\ RSub(Final("c").position.x, Final("b").position.x) = I(2)
  /\ result.collisions = << >>

\* The pair loop is at an overlapping pair that is approaching along the normal.
PairApproaching ==
  /\ AtOverlappingPair
  /\ RLt(AlongNormal(sw.orderedBodies[sw.index], sw.orderedBodies[sw.inner]), I(0))

\* The pair loop is at an overlapping pair of two dynamic bodies of different mass.
UnequalMasses ==
  /\ AtOverlappingPair
  /\ ~heap.body[sw.orderedBodies[sw.index]].isStatic
  /\ ~heap.body[sw.orderedBodies[sw.inner]].isStatic
  /\ heap.body[sw.orderedBodies[sw.index]].mass # heap.body[sw.orderedBodies[sw.inner]].mass

\* ------------------------------------------------------------------------
\* resolveBodyCollision: the friction impulse
\* ------------------------------------------------------------------------

\* The component of a vector on the axis orthogonal to an axis-aligned normal.
Across(v, normal) == IF normal.y = I(0) THEN v.y ELSE v.x

\* The impulse across the normal that a step has given body B and taken from body A,
\* read off the velocity of B, or off the velocity of A when B is static.
ImpulseAcross(a, b, normal) ==
  IF ~heap.body[b].isStatic
  THEN RMul(RSub(Across(heap'.vec[heap'.body[b].velocity], normal),
                 Across(heap.vec[heap.body[b].velocity], normal)),
            heap.body[b].mass)
  ELSE RMul(RSub(Across(heap.vec[heap.body[a].velocity], normal),
                 Across(heap'.vec[heap'.body[a].velocity], normal)),
            heap.body[a].mass)

\* The normal impulse of a pair: -(1 + e) * (v_rel . n) / (invMassA + invMassB).
NormalImpulseOf(a, b) ==
  RDiv(RMul(RNeg(RAdd(I(1), RMin(getBodyRestitution(heap, sw.world, a),
                                 getBodyRestitution(heap, sw.world, b)))),
            AlongNormal(a, b)),
       RAdd(InverseMass(DerefBody(heap, a)), InverseMass(DerefBody(heap, b))))

\* The relative velocity of the pair across the normal.
AcrossNormal(a, b) == Across(relativeVelocityOf(heap, a, b), PairNormal(a, b))

\* frictionA * frictionB: the square of the friction of the pair.
FrictionSquared(a, b) ==
  RMul(getBodyFriction(heap, sw.world, a), getBodyFriction(heap, sw.world, b))

\* What a step of the pair loop does to an overlapping pair that is not moving apart,
\* across the normal: the impulse is within the limit |normalImpulse * friction|
\* (compared by the squares), it is not in the direction of the relative velocity
\* across the normal, and there is none without friction or without such a velocity.
FrictionImpulse ==
  PairStep =>
    LET a == sw.orderedBodies[sw.index]
        b == sw.orderedBodies[sw.inner]
        impulse == ImpulseAcross(a, b, PairNormal(a, b))
    IN  (PairOverlaps(a, b) /\ RLe(AlongNormal(a, b), I(0))) =>
          /\ RLe(RMul(impulse, impulse),
                 RMul(RMul(NormalImpulseOf(a, b), NormalImpulseOf(a, b)), FrictionSquared(a, b)))
          /\ RLe(RMul(impulse, AcrossNormal(a, b)), I(0))
          /\ (FrictionSquared(a, b) = I(0) \/ AcrossNormal(a, b) = I(0)) => impulse = I(0)
          /\ (impulse # I(0)) => RLt(RMul(impulse, AcrossNormal(a, b)), I(0))

\* C25: the tangential (friction) impulse of a colliding pair is at most
\* |normalImpulse * friction| in magnitude, friction = sqrt(frictionA * frictionB);
\* it opposes the relative velocity across the normal; and it is zero when the
\* friction is 0 or the relative velocity has no component across the normal.
C25_FrictionImpulse == [][FrictionImpulse]_vars

\* The pair loop is at an approaching, overlapping pair with friction and with a
\* relative velocity across the normal.
AtRubbingPair ==
  /\ PairApproaching
  /\ FrictionSquared(sw.orderedBodies[sw.index], sw.orderedBodies[sw.inner]) # I(0)
  /\ AcrossNormal(sw.orderedBodies[sw.index], sw.orderedBodies[sw.inner]) # I(0)

\* The impulse that would stop the relative velocity across the normal of the pair
\* the pair loop is at: -(v_rel . t) / (invMassA + invMassB), squared.
StoppingSquared(a, b) ==
  RMul(RDiv(AcrossNormal(a, b),
            RAdd(InverseMass(DerefBody(heap, a)), InverseMass(DerefBody(heap, b)))),
       RDiv(AcrossNormal(a, b),
            RAdd(InverseMass(DerefBody(heap, a)), InverseMass(DerefBody(heap, b)))))

\* Such a pair, whose limit is below the impulse that would stop the relative
\* velocity across the normal: the clamp cuts the impulse.
AtSlidingPair ==
  /\ AtRubbingPair
  /\ LET a == sw.orderedBodies[sw.index]
         b == sw.orderedBodies[sw.inner]
     IN  RLt(RMul(RMul(NormalImpulseOf(a, b), NormalImpulseOf(a, b)), FrictionSquared(a, b)),
             StoppingSquared(a, b))

\* Such a pair, whose limit is at or above that impulse: the relative velocity across
\* the normal is stopped.
AtStickingPair ==
  /\ AtRubbingPair
  /\ LET a == sw.orderedBodies[sw.index]
         b == sw.orderedBodies[sw.inner]
     IN  RLe(StoppingSquared(a, b),
             RMul(RMul(NormalImpulseOf(a, b), NormalImpulseOf(a, b)), FrictionSquared(a, b)))

\* The pair loop is at an approaching, overlapping pair without friction but with a
\* relative velocity across the normal.
AtFrictionlessPair ==
  /\ PairApproaching
  /\ FrictionSquared(sw.orderedBodies[sw.index], sw.orderedBodies[sw.inner]) = I(0)
  /\ AcrossNormal(sw.orderedBodies[sw.index], sw.orderedBodies[sw.inner]) # I(0)

\* C25 witness: body b, of friction 1/4, and body c, of friction 1, have collided along
\* the y axis with a relative velocity of -15/4 across it; the normal impulse was 15/8
\* and the friction 1/2, so the impulse across the normal was cut to 15/16, half of
\* what would have stopped the sliding: b's velocity.x has gone from 15/4 to 45/16
\* and c's from 0 to 15/16.
C25_Witness ==
  /\ OneStepOfTwo(Body("b", VI(1, 1), VI(-10, -20), VI(1, 1), I(1), FALSE, Q(1, 2), Q(1, 4), I(0)),
                  Body("c", VI(5, 1), VI(0, -10), VI(6, 1), I(1), FALSE, Q(1, 2), I(1), I(0)))
  /\ request.dtMs = I(20)
  /\ Final("b").velocity = V(Q(45, 16), Q(45, 8))
  /\ Final("c").velocity = V(Q(15, 16), Q(55, 8))
  /\ result.collisions[Len(result.collisions)] = Event("b", "c", VI(0, 1), I(2), Q(5, 2))

\* ------------------------------------------------------------------------
\* stepWorld: the order of the phases and of the events of one step
\* ------------------------------------------------------------------------

\* The place of a side in resolveWorldCollision, by the normal of its event: left,
\* right, top, bottom.
SideRank(normal) ==
  CASE normal = VI(1, 0) -> 1
    [] normal = VI(-1, 0) -> 2
    [] normal = VI(0, 1) -> 3
    [] normal = VI(0, -1) -> 4
    [] OTHER -> 0

IsWorldEvent(event) == event.bId = "__world__"

\* The pair of one event comes before the pair of another: ascending by aId, then
\* by bId.
PairBefore(first, second) ==
  \/ localeCompare(first.aId, second.aId) < 0
  \/ first.aId = second.aId /\ localeCompare(first.bId, second.bId) < 0

\* The events of the step so far: the boundary events come before the events of
\* pairs; the boundary events of one body come in the order left, right, top, bottom;
\* the events of pairs ascend by (aId, bId), and aId sorts before bId in each.
EventsInOrder ==
  /\ \A n, m \in 1..Len(sw.collisions) :
       n < m =>
         /\ IsWorldEvent(sw.collisions[m]) => IsWorldEvent(sw.collisions[n])
         /\ (/\ IsWorldEvent(sw.collisions[n]) /\ IsWorldEvent(sw.collisions[m])
             /\ sw.collisions[n].aId = sw.collisions[m].aId)
              => SideRank(sw.collisions[n].normal) < SideRank(sw.collisions[m].normal)
         /\ (~IsWorldEvent(sw.collisions[n]) /\ ~IsWorldEvent(sw.collisions[m]))
              => PairBefore(sw.collisions[n], sw.collisions[m])
  /\ \A n \in 1..Len(sw.collisions) :
       /\ SideRank(sw.collisions[n].normal) # 0
       /\ ~IsWorldEvent(sw.collisions[n])
            => localeCompare(sw.collisions[n].aId, sw.collisions[n].bId) < 0

\* The events a step has added to the events of the stepWorld call.
Added == SubSeq(sw'.collisions, Len(sw.collisions) + 1, Len(sw'.collisions))

\* The bodies of the world being stepped have the positions that integration gives
\* the bodies of this world: position + velocity * dtSeconds for a dynamic body.
Integrated(H, w) ==
  LET now == DerefWorld(heap', sw.world).bodies
      was == DerefWorld(H, w).bodies
  IN  /\ Len(now) = Len(was)
      /\ \A i \in 1..Len(now) :
           now[i].position = IF was[i].isStatic THEN was[i].position
                             ELSE add(was[i].position, scale(now[i].velocity, sw.dtSeconds))

\* The phases of one stepWorld call follow each other as in the code: the actions
\* are applied while nothing is integrated and no event is recorded; integration
\* runs once every action has been applied, on the world they leave; the boundary
\* loop then takes the bodies one by one and adds only "__world__" events; the
\* pair loop starts when every body has been through the boundary loop, and adds
\* only events of pairs; and the step ends when the pair loop has ended.
PhasesInOrder ==
  /\ pc = "loop" /\ pc' # "loop" /\ pc' # "done" =>
       pc' = "actions" /\ sw'.actionIdx = 1 /\ sw'.collisions = << >>
  /\ pc = "actions" =>
       /\ sw'.collisions = << >> /\ sw.collisions = << >>
       /\ pc' \in { "actions", "bounds" }
       /\ pc' = "bounds" =>
            /\ sw.actionIdx = Len(sw.actions) + 1
            /\ sw'.bodyIdx = 1
            /\ Integrated(heap, sw.world)
  /\ pc = "bounds" =>
       /\ pc' \in { "bounds", "pairs" }
       /\ \A n \in 1..Len(Added) : IsWorldEvent(Added[n])
       /\ pc' = "bounds" =>
            \A n \in 1..Len(Added) :
              Added[n].aId = heap.body[heap.arr[heap.world[sw.world].bodies][sw.bodyIdx]].id
       /\ pc' = "pairs" =>
            /\ sw.bodyIdx = Len(heap.arr[heap.world[sw.world].bodies]) + 1
            /\ heap' = heap
            /\ Added = << >>
  /\ pc = "pairs" =>
       /\ pc' \in { "pairs", "loop" }
       /\ \A n \in 1..Len(Added) : ~IsWorldEvent(Added[n])
       /\ pc' = "loop" => sw.index > Len(sw.orderedBodies) /\ Added = << >>

\* C26: inside one step the actions are applied before integration, integration runs
\* before boundary resolution, and every body is boundary-resolved before any pair
\* is resolved; so all "__world__" events of the step precede all events of pairs,
\* the boundary events of a body come in the order left, right, top, bottom, and the
\* events of pairs ascend by (aId, bId), aId sorting before bId.
C26_PhaseAndEventOrder == []EventsInOrder /\ [][PhasesInOrder]_vars

\* C26 witness: a call of one step has returned the events of a body that was past
\* two sides of the bounds, left before top, followed by the event of a pair.
C26_Witness ==
  /\ pc = "done"
  /\ rps.steps = 1
  /\ \E n \in 1..Len(result.collisions) - 2 :
       /\ IsWorldEvent(result.collisions[n]) /\ IsWorldEvent(result.collisions[n + 1])
       /\ result.collisions[n].aId = result.collisions[n + 1].aId
       /\ result.collisions[n].normal = VI(1, 0)
       /\ result.collisions[n + 1].normal = VI(0, 1)
  /\ Len(result.collisions) > 0
  /\ ~IsWorldEvent(result.collisions[Len(result.collisions)])

\* A call of one step on a world whose bodies are not in the order of their ids has
\* returned the events of two pairs, in the order of the ids.
TwoPairsInOrder ==
  /\ pc = "done"
  /\ rps.steps = 1
  /\ Len(snapshot.bodies) = 3
  /\ localeCompare(snapshot.bodies[1].id, snapshot.bodies[2].id) > 0
  /\ Len(result.collisions) > 1
  /\ ~IsWorldEvent(result.collisions[Len(result.collisions) - 1])
  /\ ~IsWorldEvent(result.collisions[Len(result.collisions)])

\* ------------------------------------------------------------------------
\* integrateBodies
\* ------------------------------------------------------------------------

\* The step of a stepWorld call that integrates the bodies.
IntegrationStep == pc = "actions" /\ pc' = "bounds"

\* The linear damping in force for a body of a world: the body's own or else the
\* world's default, kept within [0, 1].
DampingOf(body, world) ==
  RMax(I(0), RMin(I(1), IF body.linearDamping # Undefined THEN body.linearDamping
                        ELSE world.defaultLinearDamping))

\* The damping factor of a step: 1 - damping * dtSeconds, kept within [0, 1].
DampingFactor(damping, dtSeconds) ==
  RMax(I(0), RMin(I(1), RSub(I(1), RMul(damping, dtSeconds))))

\* after is not larger than before in magnitude, and not of the opposite sign.
Decayed(before, after) ==
  /\ RLe(RAbs(after), RAbs(before))
  /\ RLe(I(0), RMul(after, before))

\* What integration makes of one body under gravity, the damping in force and the
\* step size: a static body stays; the velocity of a dynamic body gets
\* gravity * dtSeconds, then the damping factor, and its position then moves by the
\* new velocity * dtSeconds.
IntegratedBody(before, after, gravity, damping, dtSeconds) ==
  IF before.isStatic THEN after = before
  ELSE /\ after.velocity = scale(add(before.velocity, scale(gravity, dtSeconds)),
                                 DampingFactor(damping, dtSeconds))
       /\ after.position = add(before.position, scale(after.velocity, dtSeconds))
       /\ after = [before EXCEPT !.velocity = after.velocity, !.position = after.position]
       /\ Decayed(RAdd(before.velocity.x, RMul(gravity.x, dtSeconds)), after.velocity.x)
       /\ Decayed(RAdd(before.velocity.y, RMul(gravity.y, dtSeconds)), after.velocity.y)
       /\ (gravity = VI(0, 0) /\ damping = I(0)) =>
            /\ after.velocity = before.velocity
            /\ after.position = add(before.position, scale(before.velocity, dtSeconds))

\* What the integration step does to the bodies of the world being stepped.
Integration ==
  IntegrationStep =>
    LET was == DerefWorld(heap, sw.world)
        now == DerefWorld(heap', sw.world)
    IN  /\ Len(now.bodies) = Len(was.bodies)
        /\ \A i \in 1..Len(was.bodies) :
             IntegratedBody(was.bodies[i], now.bodies[i], was.gravity,
                            DampingOf(was.bodies[i], was), sw.dtSeconds)

\* A step of a world of one dynamic body, without gravity, damping and actions, that
\* has recorded no event ends with the body's velocity unchanged and its position
\* advanced by velocity * dtSeconds.
FreeMotion ==
  StepEnds =>
    LET was == DerefWorld(heap, sw.source)
        now == DerefWorld(heap', sw.world)
    IN  (/\ Len(was.bodies) = 1
         /\ ~was.bodies[1].isStatic
         /\ was.gravity = VI(0, 0)
         /\ DampingOf(was.bodies[1], was) = I(0)
         /\ sw.actions = << >>
         /\ sw.collisions = << >>)
          => now.bodies = << [was.bodies[1] EXCEPT
                                !.position = add(@, scale(was.bodies[1].velocity, sw.dtSeconds))] >>

\* C27: integration of a dynamic body updates the velocity first and the position
\* second: velocity += gravity * dtSeconds, then velocity *= clamp(1 - damping *
\* dtSeconds, 0, 1), then position += the new velocity * dtSeconds; so with zero
\* gravity, zero damping and no collision the velocity is unchanged and the position
\* advances by exactly velocity * dtSeconds; and damping never increases the magnitude
\* of a velocity component nor flips its sign.
C27_Integration == [][Integration /\ FreeMotion]_vars

\* C27 witness: the free body a, at (4, 5) with velocity (10, 0), has been stepped by
\* 20 ms without gravity and damping, and is at (21/5, 5) with velocity (10, 0).
C27_Witness ==
  /\ pc = "done"
  /\ rps.steps = 1
  /\ request.dtMs = I(20)
  /\ snapshot.gravity = VI(0, 0)
  /\ snapshot.bodies = << Body("a", VI(4, 5), VI(10, 0), VI(1, 1), I(1), FALSE, I(1), I(0), I(0)) >>
  /\ DerefWorld(heap, result.world).bodies
       = << Body("a", V(Q(21, 5), I(5)), VI(10, 0), VI(1, 1), I(1), FALSE, I(1), I(0), I(0)) >>
  /\ result.collisions = << >>

\* A body of velocity (10, -5) and of this damping has been stepped under gravity
\* (0, 10) by a step of dtMs, and has this velocity.
Damped(damping, dtMs, velocity) ==
  /\ pc = "done"
  /\ snapshot.gravity = VI(0, 10)
  /\ request.dtMs = I(dtMs)
  /\ Len(snapshot.bodies) = 1
  /\ snapshot.bodies[1].linearDamping = damping
  /\ snapshot.bodies[1].velocity = VI(10, -5)
  /\ DerefWorld(heap, result.world).bodies[1].velocity = velocity

\* Damping 60 at a step of 20 ms: the damping in force is 1 and the factor 49/50.
LargeDampingCapped == Damped(I(60), 20, V(Q(49, 5), Q(-588, 125)))

\* Damping -1 at a step of 100 ms: the damping in force is 0, and the body keeps the
\* velocity gravity gave it, (10, -4).
NegativeDampingIgnored == Damped(I(-1), 100, VI(10, -4))

\* Damping 1/2 at a step of 100 ms: the factor is 19/20.
DampedByFactor == Damped(Q(1, 2), 100, V(Q(19, 2), Q(-19, 5)))

\* ------------------------------------------------------------------------
\* stepWorld: the ids of the bodies and the lookup by id
\* ------------------------------------------------------------------------

\* The ids of the bodies of a list differ pairwise.
Pairwise(bodies) ==
  \A i, j \in 1..Len(bodies) : i # j => bodies[i].id # bodies[j].id

\* The lookup by id holds exactly the bodies of the array: its keys are their ids,
\* and each id leads to the body of the array that has it.
LookupExact(H, refs, bodyById) ==
  /\ DOMAIN bodyById = IdsOf(H, refs)
  /\ \A i \in 1..Len(refs) : bodyById[H.body[refs[i]].id] = refs[i]

\* Of a call on a world of pairwise distinct ids: the world being stepped has
\* pairwise distinct ids at every point of the step, after each action and at the
\* step's end included, and the lookup holds exactly its bodies; and so has the
\* world every sub-step has left, and the world the call returns.
IdsStayDistinct ==
  Pairwise(snapshot.bodies) =>
    /\ pc \in { "actions", "bounds", "pairs" } =>
         /\ Pairwise(DerefWorld(heap, sw.world).bodies)
         /\ LookupExact(heap, heap.arr[heap.world[sw.world].bodies], sw.bodyById)
    /\ (pc \in { "loop", "done" } /\ rps.world # 0) =>
         Pairwise(DerefWorld(heap, rps.world).bodies)
    /\ pc = "done" => Pairwise(DerefWorld(heap, result.world).bodies)

\* C28: if the ids of the input world's bodies are pairwise distinct, then after
\* every action and at the end of every sub-step the ids of the world's bodies are
\* still pairwise distinct, and the lookup by id that the actions use holds exactly
\* the bodies of world.bodies.
C28_IdsStayDistinct == []IdsStayDistinct

\* C28 witness: the first action of a step was a spawnBody of a body with id a into a
\* world that has a body a, and the world has as many bodies as before.
C28_Witness ==
  /\ pc = "actions"
  /\ sw.actionIdx = 2
  /\ LastAction.type = "spawnBody"
  /\ LastAction.body.id = "a"
  /\ "a" \in IdsIn(snapshot.bodies)
  /\ Len(DerefWorld(heap, sw.world).bodies) = Len(snapshot.bodies)

\* A removeBody of a and a spawnBody of a have been applied to a world of two bodies:
\* the lookup leads to the spawned body a, the last of world.bodies.
RespawnedInLookup ==
  /\ pc = "actions"
  /\ sw.actionIdx = 3
  /\ Len(snapshot.bodies) = 2
  /\ "a" \in IdsIn(snapshot.bodies)
  /\ sw.actions[1].type = "removeBody" /\ sw.actions[2].type = "spawnBody"
  /\ Len(heap.arr[heap.world[sw.world].bodies]) = 2
  /\ sw.bodyById["a"] = heap.arr[heap.world[sw.world].bodies][2]
  /\ heap.body[sw.bodyById["a"]].isStatic

\* A body of a new id has been spawned, and the world has one body more.
SpawnedInLookup ==
  /\ pc = "actions"
  /\ sw.actionIdx = 2
  /\ LastAction.type = "spawnBody"
  /\ LastAction.body.id \notin IdsIn(snapshot.bodies) \cup { "" }
  /\ Len(DerefWorld(heap, sw.world).bodies) = Len(snapshot.bodies) + 1
  /\ LastAction.body.id \in DOMAIN sw.bodyById

\* ------------------------------------------------------------------------
\* stepWorld: the bodies and the bounds at the end of a step
\* ------------------------------------------------------------------------

\* The box of the body is no larger than the bounds on either axis.
FitsIn(body, bounds) ==
  /\ RLe(RMul(I(2), body.halfSize.x), RSub(bounds.max.x, bounds.min.x))
  /\ RLe(RMul(I(2), body.halfSize.y), RSub(bounds.max.y, bounds.min.y))

\* The box of the body lies inside the bounds on both axes.
Inside(body, bounds) ==
  /\ RLe(bounds.min.x, RSub(body.position.x, body.halfSize.x))
  /\ RLe(RAdd(body.position.x, body.halfSize.x), bounds.max.x)
  /\ RLe(bounds.min.y, RSub(body.position.y, body.halfSize.y))
  /\ RLe(RAdd(body.position.y, body.halfSize.y), bounds.max.y)

\* Every dynamic body of the world that fits in the bounds lies inside them.
AllInside(world) ==
  \A i \in 1..Len(world.bodies) :
    (~world.bodies[i].isStatic /\ FitsIn(world.bodies[i], world.bounds))
      => Inside(world.bodies[i], world.bounds)

\* A step of the call has ended.
StepEnded == pc \in { "loop", "done" } /\ rps.world # 0 /\ rps.stepIndex > 0

\* C29: at the end of every step, every dynamic body whose box is no larger than the
\* bounds lies entirely inside the bounds on both axes, the bodies that the pairwise
\* positional correction of the step has moved included.
C29_InsideBounds == StepEnded => AllInside(DerefWorld(heap, rps.world))

\* When the boundary loop of a step has ended, every dynamic body whose box is no
\* larger than the bounds lies inside the bounds.
InsideAfterBoundaryLoop ==
  (pc = "bounds" /\ sw.bodyIdx > Len(heap.arr[heap.world[sw.world].bodies]))
    => AllInside(DerefWorld(heap, sw.world))

\* Body a, moved back to the left wall by the boundary loop, has then been pushed
\* through it by the positional correction of its overlap with the dynamic body b:
\* the call has returned it at x = 13/20, its box reaching to -7/20.
PushedOutOfBounds ==
  /\ pc = "done"
  /\ \A i \in 1..Len(snapshot.bodies) : FitsIn(snapshot.bodies[i], snapshot.bounds)
  /\ Len(snapshot.bodies) = 2
  /\ ~snapshot.bodies[2].isStatic
  /\ Len(request.actions) = 0
  /\ snapshot.bodies[1].id = "a" /\ snapshot.bodies[2].id = "b"
  /\ Final("a").position = V(Q(13, 20), I(5))
  /\ Final("b").position = V(Q(53, 20), I(5))
  /\ ~AllInside(DerefWorld(heap, result.world))

\* The same with b static: a has been pushed out of b by the whole overlap, to
\* x = 1/2, its box reaching to -1/2.
PushedOutByStatic ==
  /\ pc = "done"
  /\ \A i \in 1..Len(snapshot.bodies) : FitsIn(snapshot.bodies[i], snapshot.bounds)
  /\ Len(snapshot.bodies) = 2
  /\ snapshot.bodies[2].isStatic
  /\ Len(request.actions) = 0
  /\ snapshot.bodies[1].id = "a"
  /\ Final("a").position = V(Q(1, 2), I(5))
  /\ ~AllInside(DerefWorld(heap, result.world))

\* ------------------------------------------------------------------------
\* resolveBodyCollision: linear momentum
\* ------------------------------------------------------------------------

\* massA * velocityA + massB * velocityB of two bodies of a heap.
Momentum(H, a, b) ==
  add(scale(H.vec[H.body[a].velocity], H.body[a].mass),
      scale(H.vec[H.body[b].velocity], H.body[b].mass))

\* What a step of the pair loop does to the linear momentum of the pair: two dynamic
\* bodies keep their sum on both axes, and a static body keeps its velocity.
MomentumKept ==
  PairStep =>
    LET a == sw.orderedBodies[sw.index]
        b == sw.orderedBodies[sw.inner]
    IN  /\ (/\ ~heap.body[a].isStatic /\ RLt(I(0), heap.body[a].mass)
             /\ ~heap.body[b].isStatic /\ RLt(I(0), heap.body[b].mass)) =>
             Momentum(heap', a, b) = Momentum(heap, a, b)
        /\ heap.body[a].isStatic =>
             heap'.vec[heap'.body[a].velocity] = heap.vec[heap.body[a].velocity]
        /\ heap.body[b].isStatic =>
             heap'.vec[heap'.body[b].velocity] = heap.vec[heap.body[b].velocity]
        /\ \A c \in 1..Len(heap.body) :
             c \notin { a, b } => heap'.vec[heap'.body[c].velocity] = heap.vec[heap.body[c].velocity]

\* C30: resolveBodyCollision conserves the linear momentum of two dynamic bodies of
\* positive mass: massA * velocityA + massB * velocityB is the same on both axes
\* before and after it; and when one body of the pair is static, only the dynamic
\* body's velocity changes.
C30_MomentumConserved == [][MomentumKept]_vars

\* C30 witness: body a of mass 1, bounced off the left wall, and body b of mass 3 have
\* collided along the x axis while b moved along a's face at 4: the normal impulse
\* was 30 and the friction impulse 3, a has gone from (10, 0) to (-20, 3) and b from
\* (-10, 4) to (0, 3), and the momentum is (-20, 12) as before.
C30_Witness ==
  /\ OneStepOfTwo(Body("a", VI(1, 5), VI(-10, 0), VI(1, 1), I(1), FALSE, I(1), Q(1, 4), I(0)),
                  Body("b", V(Q(5, 2), I(5)), VI(-10, 4), VI(1, 1), I(3), FALSE, I(1), I(1), I(0)))
  /\ Final("a").velocity = VI(-20, 3)
  /\ Final("b").velocity = VI(0, 3)
  /\ result.collisions[Len(result.collisions)]
       = Event("a", "b", VI(1, 0), Q(7, 10), I(20))

\* The pair loop is at an approaching pair of two dynamic bodies of different mass
\* that have friction and a relative velocity across the normal.
AtUnequalRubbingPair == UnequalMasses /\ AtRubbingPair

\* The pair loop is at an approaching pair of a static and a dynamic body.
AtStaticApproached ==
  /\ PairApproaching
  /\ heap.body[sw.orderedBodies[sw.index]].isStatic # heap.body[sw.orderedBodies[sw.inner]].isStatic

====
